---- MODULE Spec2Model ----
(***************************************************************************)
(* Model of the audit-log service of src/log_api/api: the HMAC digest of   *)
(* a log entry and its verification (security.py), the Redis-backed log    *)
(* store (models.py), the write and verify routes (routes.py) and the      *)
(* WebSocket hub (websocket.py, main.py), the ledger anchor                 *)
(* (blockchain_storage.py) and the sessions (auth.py); and of the admin    *)
(* table of src/backend/app (api/v1/admins.py, utils/admin_safety.py).     *)
(*                                                                         *)
(* Strings are TLA+ strings, so the digest input is the real '|'-joined    *)
(* text.  HMAC-SHA256 is idealised as an injective text of its key and     *)
(* message (collision resistance); a datetime is a tick of a clock and     *)
(* isoformat / fromisoformat convert between ticks and ISO texts.          *)
(***************************************************************************)
EXTENDS Integers, Sequences, FiniteSets, TLC

(***************************************************************************)
(* Bounds of the model                                                     *)
(***************************************************************************)
\* requests served by the write route in one behaviour
MaxLogs == 3
\* last tick of the clock
MaxTime == 2
\* The retention bound.  models.py:56,59 trim to 0..999 (1000 ids); the
\* model keeps the code's "0 .. bound-1" and scales the bound down.
RetentionBound == 2
\* heartbeats one streamer sends in one behaviour
MaxBeats == 1
\* largest limit and offset a caller of list passes
MaxLimit == 3
MaxOffset == 3
\* entries written, and fields overwritten in the store, in a behaviour of
\* the verification specification
MaxVerifyLogs == 1
MaxTampers == 1
\* entries written in a behaviour of the hub specification
MaxHubLogs == 1
\* entries written while one subscriber follows the live feed
MaxFeedLogs == 3
\* entries written while two subscribers are served by one broadcast
MaxFanoutLogs == 2
\* entries written while their digests are submitted to the ledger
MaxAnchorLogs == 3
\* The expiry window of a session.  config.py:14 sets 30 minutes; the model
\* scales it to ticks of the clock.
ExpireWindow == 1
\* sessions created in one behaviour
MaxTokens == 2
\* rows the admin table ever holds in one behaviour, the default super admin
\* included
MaxAdmins == 2
\* users registered in one behaviour
MaxUsers == 3
\* entries written while every operation of the service runs
MaxServiceLogs == 2

(***************************************************************************)
(* Values                                                                  *)
(***************************************************************************)
\* Python's None (a missing query parameter, an absent field)
None == "<None>"
\* the values of a variable that holds no object yet: no LogEntry, no
\* response, no arguments
NoEntry == [id |-> None]
NoResponse == [status |-> 0]
NoArgs == [user_id |-> None]
\* subjects that can log in (routes.py login refuses an empty user_id)
Users == {"a", "b"}
\* threads of the write route, list callers and websocket objects
Writers == {"w1", "w2"}
Readers == {"r1"}
Conns == {"c1", "c2"}

\* Python truthiness of an optional string: None and "" are falsy
Truthy(s) == s # None /\ s # ""

Max(a, b) == IF a > b THEN a ELSE b
Min(a, b) == IF a < b THEN a ELSE b

(***************************************************************************)
(* datetime <-> ISO-8601 text                                              *)
(***************************************************************************)
Time == 0 .. MaxTime
\* raised by datetime.fromisoformat on a text it cannot parse
ValueError == -1
\* the separators fromisoformat accepts between date and time; isoformat
\* always writes "T"
Separators == {"T", " "}

IsoText(t, sep) == "2025-01-01" \o sep \o "00:00:0" \o ToString(t) \o "+00:00"

\* datetime.isoformat()
IsoFormat(t) == IsoText(t, "T")

\* datetime.fromisoformat(text)
FromIsoFormat(text) ==
    IF \E t \in Time, sep \in Separators : text = IsoText(t, sep)
    THEN CHOOSE t \in Time : \E sep \in Separators : text = IsoText(t, sep)
    ELSE ValueError

(***************************************************************************)
(* security.py                                                             *)
(***************************************************************************)
\* settings.JWT_SECRET_KEY
SecretKey == "your-super-secret-jwt-key-change-in-production"

\* hmac.new(key, msg, sha256).hexdigest(), idealised as injective
HmacHexDigest(key, msg) == "hmac<" \o key \o "><" \o msg \o ">"

\* the text the digest is computed over
LogDataNoStatus(user_id, query, status, timestamp) ==
    user_id \o "|" \o query \o "|" \o IsoFormat(timestamp)
LogData(user_id, query, status, timestamp) ==
    user_id \o "|" \o query \o "|" \o status \o "|" \o IsoFormat(timestamp)

generate_log_hash(user_id, query, status, timestamp) ==
    HmacHexDigest(SecretKey, LogData(user_id, query, status, timestamp))

\* hmac.compare_digest decides equality
verify_log_hash(user_id, query, status, timestamp, provided_hash) ==
    generate_log_hash(user_id, query, status, timestamp) = provided_hash

generate_verification_token(log_id, hash_value) ==
    HmacHexDigest(SecretKey, log_id \o "|" \o hash_value)

\* dict.get(key): None for a missing key
DictGet(d, k) == IF k \in DOMAIN d THEN d[k] ELSE None

MissingFields == "Missing required fields for verification"
HashFailed == "Hash verification failed - log may have been tampered with"
VerificationError == "Verification error"

\* verify_log_integrity(log_data): {valid, verification_token, error}
verify_log_integrity_token_always(log_data) ==
    [valid |-> verify_log_hash(DictGet(log_data, "user_id"), DictGet(log_data, "query"),
                               DictGet(log_data, "status"),
                               FromIsoFormat(DictGet(log_data, "timestamp")),
                               DictGet(log_data, "hash")),
     verification_token |->
         generate_verification_token(DictGet(log_data, "id"), DictGet(log_data, "hash")),
     error |-> None]

verify_log_integrity(log_data) ==
    LET user_id == DictGet(log_data, "user_id")
        query == DictGet(log_data, "query")
        status == DictGet(log_data, "status")
        timestamp_str == DictGet(log_data, "timestamp")
        provided_hash == DictGet(log_data, "hash")
    IN  IF ~ \A x \in {user_id, query, status, timestamp_str, provided_hash} : Truthy(x)
        THEN [valid |-> FALSE, verification_token |-> None, error |-> MissingFields]
        ELSE IF FromIsoFormat(timestamp_str) = ValueError
        THEN [valid |-> FALSE, verification_token |-> None, error |-> VerificationError]
        ELSE LET is_valid == verify_log_hash(user_id, query, status,
                                             FromIsoFormat(timestamp_str), provided_hash)
             IN  [valid |-> is_valid,
                  verification_token |->
                      IF is_valid
                      THEN generate_verification_token(
                               IF "id" \in DOMAIN log_data THEN log_data["id"] ELSE "",
                               provided_hash)
                      ELSE None,
                  error |-> IF is_valid THEN None ELSE HashFailed]

(***************************************************************************)
(* models.py: LogEntry                                                     *)
(***************************************************************************)
Fields == {"id", "user_id", "query", "status", "timestamp", "hash"}

\* str(uuid.uuid4()): the n-th identifier drawn
Uuid(n) == "log-" \o ToString(n)

\* LogEntry.__init__: the object, its timestamp a datetime
LogEntry(user_id, query, status, log_id, now_) ==
    [id |-> log_id, user_id |-> user_id, query |-> query, status |-> status,
     timestamp |-> now_, hash |-> generate_log_hash(user_id, query, status, now_)]

\* LogEntry.to_dict: the timestamp as ISO text
to_dict(log) == [log EXCEPT !.timestamp = IsoFormat(log.timestamp)]

\* LogEntry.from_dict raises KeyError on a missing field and ValueError on
\* an unparseable timestamp
from_dict_raises(data) ==
    \/ Fields \ DOMAIN data # {}
    \/ FromIsoFormat(data["timestamp"]) = ValueError

from_dict(data) ==
    [id |-> data["id"], user_id |-> data["user_id"], query |-> data["query"],
     status |-> data["status"], timestamp |-> FromIsoFormat(data["timestamp"]),
     hash |-> data["hash"]]

(***************************************************************************)
(* Redis list commands                                                     *)
(***************************************************************************)
\* the 0-based inclusive range start..stop of a list, negative indexes
\* counting from the end, as LRANGE and LTRIM resolve it
RangeFrom(n, start) == IF start < 0 THEN Max(n + start, 0) ELSE start
RangeTo(n, stop) == IF stop < 0 THEN n + stop ELSE Min(stop, n - 1)

LRange(list, start, stop) ==
    LET n == Len(list)
        s == RangeFrom(n, start)
        e == RangeTo(n, stop)
    IN  IF s > e \/ s >= n THEN << >> ELSE SubSeq(list, s + 1, e + 1)

LTrim(list, start, stop) == LRange(list, start, stop)

\* LPUSH puts the element at the head of the list
RPush(list, x) == Append(list, x)
LPush(list, x) == <<x>> \o list

UserKey(user_id) == "user_logs:" \o user_id
AllKey == "all_logs"
ListKeys == {AllKey} \cup {UserKey(u) : u \in Users}

\* the identifiers uuid4 can return; the ledger thread of an entry is named
\* by the entry's identifier
LogIds == {Uuid(i) : i \in 1 .. MaxLogs}
\* _current_nonce = None
NoNonce == -1

\* tokens: secrets.token_urlsafe(32) draws a fresh text at every call
Token(i) == "tok-" \o ToString(i)
\* a text a caller made up; create_access_token never returns it
ForgedToken == "tok-x"
Tokens == {Token(i) : i \in 1 .. MaxTokens} \cup {ForgedToken}
\* get_by_token found no session
NoSession == [user_id |-> None]

\* the user table of the panel: primary keys (uuid4)
UserId(i) == "usr-" \o ToString(i)
UserIds == {UserId(i) : i \in 1 .. MaxUsers}

\* no call of generate_log_hash or verify_log_hash yet
NoFields == [user_id |-> None]

\* the admin table of the panel: primary keys (uuid4), the requests served
\* concurrently, each with a database session of its own (db.py get_session)
AdminId(i) == "adm-" \o ToString(i)
AdminIds == {AdminId(i) : i \in 1 .. MaxAdmins}
AdminRequests == {"p1", "p2"}
AdminOps == {"create", "role", "delete"}
\* the roles a request body can carry; only the first two are valid
AdminRoles == {"admin", "super_admin", "owner"}
NoRequest == [op |-> None, actor |-> None, target |-> None, role |-> None,
              hard_delete |-> FALSE]
NoAdmin == [id |-> None, role |-> None, is_active |-> FALSE]
\* the table after startup: ensure_super_admin_exists has created the
\* default super admin
InitialAdmins == [a \in {AdminId(1)} |-> [role |-> "super_admin", is_active |-> TRUE]]

(***************************************************************************)
(* State                                                                   *)
(***************************************************************************)
VARIABLES
    \* Redis
    logs,               \* the hashes "log:{id}": id -> dict of texts
    lists,              \* the lists "user_logs:{user}" and "all_logs": key -> ids
    published,          \* the messages published on channel "log_updates"
    \* the process
    now,                \* the clock datetime.now() reads
    next_id,            \* identifiers drawn so far
    \* threads of the write route (routes.py create_log)
    wpc,                \* 0 idle, i in 1..6 about to run SaveSteps[i], 7 saved,
                        \* 8 the response is on its way to the client
    wentry,             \* the LogEntry of the request being served
    wdone,              \* the store commands the request has completed
    wresp,              \* the response of the request
    bc_started,         \* ledger threads started: <<entry id, digest>>
    store_failed,       \* a store command has failed (Redis was unreachable once)
    untrimmed,          \* history: key -> insertions since the key's last trim
    pushed,             \* history: key -> the ids inserted, in the order of
                        \* the insertions
    \* callers of LogEntry.get_logs
    rpc, rargs, rids, rlogs,
    \* the verify route and the operator tampering with the store
    vresp,              \* the response of the last verify request
    tampered,           \* history: id -> the dict save stored, for overwritten hashes
    tampers,            \* fields overwritten so far
    \* the hub (websocket.py, main.py)
    active_connections, \* manager.active_connections
    user_connections,   \* manager.user_connections: user_id -> websockets
    cpc,                \* where the handler of a websocket is: "new", "snapshot",
                        \* "initial", "streaming", "finally", "done"
    cendpoint,          \* "logs" (/ws/logs) or "stream" (/ws/stream)
    cuser,              \* the user_id query parameter of the connection
    alive,              \* the client is still there; a send to a client that
                        \* is gone raises
    received,           \* the messages sent to the client
    beats,              \* heartbeats sent
    lpos,               \* messages of log_updates the listener has taken
    lmsg,               \* the message broadcast is sending
    lqueue,             \* broadcast: the rest of its copy of active_connections
    lcopy,              \* broadcast: its copy of active_connections
    subscribed_at,      \* history: messages published when manager.connect
                        \* registered the websocket
    \* the ledger anchor (blockchain_storage.py)
    last_hash,          \* blockchain_storage._last_hash
    current_nonce,      \* blockchain_storage._current_nonce
    last_hash_lock,     \* the thread holding _last_hash_lock, or None
    nonce_lock,         \* the thread holding _nonce_lock, or None
    bpc,                \* where the thread of an entry is in store_log_hash:
                        \* "new", "read", "nonce", "count", "send", "done";
                        \* "killed" when its process has gone
    bprev,              \* prev_hash of the thread
    bnonce,             \* the nonce get_next_nonce returned to the thread
    bresult,            \* what store_log_hash returned: "tx" or None
    \* the external ledger
    chain,              \* the logs stored in the contract (mined transactions)
    pending,            \* transactions the node took that are not mined yet
    acked,              \* history: digests of the transactions the node took
    allocs,             \* history: the calls of get_next_nonce, in order
    anchors,            \* history: the threads in the order they read prev_hash
    exited,             \* the service process has exited (its daemon threads with it)
    \* sessions (auth.py, models.py Session)
    sessions,           \* the Redis keys "session:{token}": token -> the stored
                        \* dict and the time the key's TTL runs out
    issued,             \* history: token -> what create_session bound to it
    next_token,         \* tokens drawn so far
    \* the admin table of the panel (backend/app) and the requests on it
    admins,             \* the rows: id -> [role, is_active]
    apc,                \* where a request is: "idle", "authed", "loaded",
                        \* "counting", "checked"
    areq,               \* the request: actor, operation, target, arguments
    aadmin,             \* the session's copy of the target row
    acount,             \* what count_active_super_admins returned
    next_admin,         \* rows inserted so far
    \* the user table of the panel (backend/app)
    users,              \* the rows: id -> [is_approved, is_active, is_blocked]
    next_user,          \* users registered so far
    \* calls of security.py
    hentry,             \* the fields generate_log_hash was called with, and
                        \* the digest it returned
    hcheck              \* the fields verify_log_hash was called with on that
                        \* digest, and what it returned

storeVars == <<logs, lists, published>>
writerVars == <<now, next_id, wpc, wentry, wdone, wresp, bc_started, store_failed,
               untrimmed, pushed>>
readerVars == <<rpc, rargs, rids, rlogs>>
verifyVars == <<vresp, tampered, tampers>>
hubVars == <<active_connections, user_connections, cpc, cendpoint, cuser, alive,
             received, beats, lpos, lmsg, lqueue, lcopy, subscribed_at>>
anchorVars == <<last_hash, current_nonce, last_hash_lock, nonce_lock, bpc, bprev, bnonce, bresult,
               chain, pending, acked, allocs, anchors>>
sessionVars == <<sessions, issued, next_token>>
adminVars == <<admins, apc, areq, aadmin, acount, next_admin>>
userVars == <<users, next_user>>
digestVars == <<hentry, hcheck>>
serviceVars == <<exited, sessionVars, adminVars, userVars, digestVars>>
vars == <<storeVars, writerVars, readerVars, verifyVars, hubVars, anchorVars,
          serviceVars>>

Init ==
    /\ logs = << >>
    /\ lists = [k \in ListKeys |-> << >>]
    /\ published = << >>
    /\ now = 0
    /\ next_id = 0
    /\ wpc = [w \in Writers |-> 0]
    /\ wentry = [w \in Writers |-> NoEntry]
    /\ wdone = [w \in Writers |-> << >>]
    /\ wresp = [w \in Writers |-> NoResponse]
    /\ bc_started = {}
    /\ store_failed = FALSE
    /\ untrimmed = [k \in ListKeys |-> 0]
    /\ pushed = [k \in ListKeys |-> << >>]
    /\ rpc = [r \in Readers |-> "idle"]
    /\ rargs = [r \in Readers |-> NoArgs]
    /\ rids = [r \in Readers |-> << >>]
    /\ rlogs = [r \in Readers |-> << >>]
    /\ vresp = NoResponse
    /\ tampered = << >>
    /\ tampers = 0
    /\ active_connections = << >>
    /\ user_connections = << >>
    /\ cpc = [c \in Conns |-> "new"]
    /\ cendpoint = [c \in Conns |-> None]
    /\ cuser = [c \in Conns |-> None]
    /\ alive = [c \in Conns |-> TRUE]
    /\ received = [c \in Conns |-> << >>]
    /\ beats = [c \in Conns |-> 0]
    /\ lpos = 0
    /\ lmsg = NoEntry
    /\ lqueue = << >>
    /\ lcopy = << >>
    /\ subscribed_at = [c \in Conns |-> 0]
    /\ last_hash = None
    /\ current_nonce = NoNonce
    /\ last_hash_lock = None
    /\ nonce_lock = None
    /\ bpc = [t \in LogIds |-> "new"]
    /\ bprev = [t \in LogIds |-> None]
    /\ bnonce = [t \in LogIds |-> NoNonce]
    /\ bresult = [t \in LogIds |-> None]
    /\ chain = << >>
    /\ pending = {}
    /\ acked = {}
    /\ allocs = << >>
    /\ anchors = << >>
    /\ exited = FALSE
    /\ sessions = << >>
    /\ issued = << >>
    /\ next_token = 0
    /\ admins = InitialAdmins
    /\ apc = [p \in AdminRequests |-> "idle"]
    /\ areq = [p \in AdminRequests |-> NoRequest]
    /\ aadmin = [p \in AdminRequests |-> NoAdmin]
    /\ acount = [p \in AdminRequests |-> 0]
    /\ next_admin = 1
    /\ users = << >>
    /\ next_user = 0
    /\ hentry = NoFields
    /\ hcheck = NoFields

\* the clock advances
Tick ==
    /\ now < MaxTime
    /\ now' = now + 1
    /\ UNCHANGED <<serviceVars, anchorVars, storeVars, next_id, wpc, wentry, wdone, wresp, bc_started,
                   store_failed, untrimmed, pushed, readerVars, verifyVars, hubVars>>

(***************************************************************************)
(* models.py LogEntry.save and routes.py create_log                        *)
(***************************************************************************)
\* the Redis commands of LogEntry.save, in the order the code issues them
SaveStepsIndexFirst ==
    <<"lpush_user", "lpush_all", "hset", "publish", "ltrim_user", "ltrim_all">>
SaveStepsPublishFirst ==
    <<"hset", "publish", "lpush_user", "lpush_all", "ltrim_user", "ltrim_all">>
SaveSteps ==
    <<"hset", "lpush_user", "lpush_all", "publish", "ltrim_user", "ltrim_all">>

Saved == Len(SaveSteps) + 1
Responding == Len(SaveSteps) + 2

\* a store whose write keeps nothing but the entry written
HSetReplacing(hashes, e) == [i \in {e.id} |-> to_dict(e)]

\* HSET log:{id} mapping=to_dict()
HSet(hashes, e) ==
    [i \in DOMAIN hashes \cup {e.id} |-> IF i = e.id THEN to_dict(e) ELSE hashes[i]]

\* LTRIM key 0 999, with the bound scaled
TrimOneMore(list) == LTrim(list, 0, RetentionBound)
Trim(list) == LTrim(list, 0, RetentionBound - 1)

\* the list a command of save works on
CmdKey(cmd, e) ==
    IF cmd \in {"lpush_user", "ltrim_user"} THEN UserKey(e.user_id) ELSE AllKey

\* one Redis command of save, as Redis executes it (each command is atomic)
RedisCmd(cmd, e) ==
    /\ logs' = IF cmd = "hset" THEN HSet(logs, e) ELSE logs
    /\ lists' = IF cmd \in {"lpush_user", "lpush_all"}
                THEN [lists EXCEPT ![CmdKey(cmd, e)] = LPush(@, e.id)]
                ELSE IF cmd \in {"ltrim_user", "ltrim_all"}
                THEN [lists EXCEPT ![CmdKey(cmd, e)] = Trim(@)]
                ELSE lists
    /\ published' = IF cmd = "publish" THEN Append(published, to_dict(e))
                    ELSE published
    /\ untrimmed' = IF cmd \in {"lpush_user", "lpush_all"}
                    THEN [untrimmed EXCEPT ![CmdKey(cmd, e)] = @ + 1]
                    ELSE IF cmd \in {"ltrim_user", "ltrim_all"}
                    THEN [untrimmed EXCEPT ![CmdKey(cmd, e)] = 0]
                    ELSE untrimmed
    /\ pushed' = IF cmd \in {"lpush_user", "lpush_all"}
                 THEN [pushed EXCEPT ![CmdKey(cmd, e)] = Append(@, e.id)]
                 ELSE pushed

\* create_log up to the call of save: the authenticated subject, the
\* request body, LogEntry.__init__
CreateLog(w, current_user, query, status) ==
    /\ wpc[w] = 0
    /\ next_id < MaxLogs
    /\ next_id' = next_id + 1
    /\ wentry' = [wentry EXCEPT ![w] =
                     LogEntry(current_user, query, status, Uuid(next_id + 1), now)]
    /\ wpc' = [wpc EXCEPT ![w] = 1]
    /\ UNCHANGED <<serviceVars, anchorVars, storeVars, now, wdone, wresp, bc_started, store_failed, untrimmed, pushed, readerVars,
                   verifyVars, hubVars>>

\* the next command of save succeeds
SaveStep(w) ==
    /\ wpc[w] \in 1 .. Len(SaveSteps)
    /\ RedisCmd(SaveSteps[wpc[w]], wentry[w])
    /\ wdone' = [wdone EXCEPT ![w] = Append(@, SaveSteps[wpc[w]])]
    /\ wpc' = [wpc EXCEPT ![w] = @ + 1]
    /\ UNCHANGED <<serviceVars, anchorVars, now, next_id, wentry, wresp, bc_started, store_failed, readerVars,
                   verifyVars, hubVars>>

\* the next command of save raises (Redis unreachable): the exception leaves
\* save and create_log, and the framework answers 500
StoreFailSwallowed(w) ==
    /\ wpc[w] \in 1 .. Len(SaveSteps)
    /\ ~ store_failed
    /\ store_failed' = TRUE
    /\ wpc' = [wpc EXCEPT ![w] = @ + 1]
    /\ UNCHANGED <<serviceVars, anchorVars, storeVars, now, next_id, wentry, wdone, wresp, bc_started,
                   untrimmed, pushed, readerVars, verifyVars, hubVars>>
StoreFail(w) ==
    /\ wpc[w] \in 1 .. Len(SaveSteps)
    /\ ~ store_failed
    /\ store_failed' = TRUE
    /\ wpc' = [wpc EXCEPT ![w] = Responding]
    /\ wresp' = [wresp EXCEPT ![w] = [status |-> 500, body |-> [detail |-> "Internal Server Error"]]]
    /\ UNCHANGED <<serviceVars, anchorVars, storeVars, now, next_id, wentry, wdone, bc_started, untrimmed, pushed,
                   readerVars, verifyVars, hubVars>>

\* create_log after save: start the ledger thread, return the entry
ReturnLog(w) ==
    /\ wpc[w] = Saved
    /\ bc_started' = bc_started \cup {<<wentry[w].id, wentry[w].hash>>}
    /\ wresp' = [wresp EXCEPT ![w] = [status |-> 200, body |-> to_dict(wentry[w])]]
    /\ wpc' = [wpc EXCEPT ![w] = Responding]
    /\ UNCHANGED <<serviceVars, anchorVars, storeVars, now, next_id, wentry, wdone, store_failed, untrimmed, pushed,
                   readerVars, verifyVars, hubVars>>

\* the response has left; the thread serves the next request
EndRequest(w) ==
    /\ wpc[w] = Responding
    /\ wpc' = [wpc EXCEPT ![w] = 0]
    /\ wentry' = [wentry EXCEPT ![w] = NoEntry]
    /\ wdone' = [wdone EXCEPT ![w] = << >>]
    /\ wresp' = [wresp EXCEPT ![w] = NoResponse]
    /\ UNCHANGED <<serviceVars, anchorVars, storeVars, now, next_id, bc_started, store_failed, untrimmed, pushed,
                   readerVars, verifyVars, hubVars>>

(***************************************************************************)
(* models.py LogEntry.get_by_id and LogEntry.get_logs                      *)
(***************************************************************************)
\* HGETALL log:{id} finds a non-empty hash
HasData(log_id) == log_id \in DOMAIN logs /\ DOMAIN logs[log_id] # {}

\* get_by_id where the hash exists: from_dict of it
get_by_id(log_id) == from_dict(logs[log_id])

\* the key get_logs reads
ListKeyAlwaysAll(user_id) == AllKey
ListKey(user_id) == IF Truthy(user_id) THEN UserKey(user_id) ELSE AllKey

\* the list under a key; a key Redis does not hold reads as the empty list
ListAt(key) == IF key \in DOMAIN lists THEN lists[key] ELSE << >>

\* the ids LRANGE returns to get_logs
ListIds(user_id, limit, offset) ==
    LRange(ListAt(ListKey(user_id)), offset, offset + limit - 1)

\* get_logs, first half: LRANGE
GetLogsStart(r, user_id, limit, offset) ==
    /\ rpc[r] = "idle"
    /\ rargs' = [rargs EXCEPT ![r] = [user_id |-> user_id, limit |-> limit,
                                      offset |-> offset]]
    /\ rids' = [rids EXCEPT ![r] = ListIds(user_id, limit, offset)]
    /\ rlogs' = [rlogs EXCEPT ![r] = << >>]
    /\ rpc' = [rpc EXCEPT ![r] = "fetch"]
    /\ UNCHANGED <<serviceVars, anchorVars, storeVars, writerVars, verifyVars, hubVars>>

\* get_logs, the loop: one get_by_id per id, ids without data are skipped
GetLogsFetch(r) ==
    /\ rpc[r] = "fetch"
    /\ rids[r] # << >>
    /\ rlogs' = [rlogs EXCEPT ![r] =
                    IF HasData(Head(rids[r]))
                    THEN Append(@, get_by_id(Head(rids[r])))
                    ELSE @]
    /\ rids' = [rids EXCEPT ![r] = Tail(@)]
    /\ UNCHANGED <<serviceVars, anchorVars, storeVars, writerVars, rpc, rargs, verifyVars, hubVars>>

\* the list get_logs is about to return
Returning(r) == rpc[r] = "fetch" /\ rids[r] = << >>

\* get_logs returns rlogs[r] to its caller
GetLogsReturn(r) ==
    /\ Returning(r)
    /\ rpc' = [rpc EXCEPT ![r] = "idle"]
    /\ rargs' = [rargs EXCEPT ![r] = NoArgs]
    /\ rlogs' = [rlogs EXCEPT ![r] = << >>]
    /\ UNCHANGED <<serviceVars, anchorVars, storeVars, writerVars, rids, verifyVars, hubVars>>

(***************************************************************************)
(* routes.py verify_log, and an operator editing the store directly        *)
(***************************************************************************)
\* GET /verify/{log_id}: 404 for an unknown id; an exception of from_dict
\* is not caught and the framework answers 500
VerifyLog(log_id) ==
    /\ vresp' =
         IF ~ HasData(log_id) THEN [status |-> 404]
         ELSE IF from_dict_raises(logs[log_id]) THEN [status |-> 500]
         ELSE [status |-> 200, log_id |-> log_id,
               verification |-> verify_log_integrity(to_dict(get_by_id(log_id)))]
    /\ UNCHANGED <<serviceVars, anchorVars, storeVars, writerVars, readerVars, tampered, tampers, hubVars>>

\* HSET log:{id} field value, issued by someone with access to Redis
Tamper(log_id, field, value) ==
    /\ HasData(log_id)
    /\ field \in DOMAIN logs[log_id]
    /\ logs[log_id][field] # value
    /\ tampers < MaxTampers
    /\ tampers' = tampers + 1
    /\ logs' = [logs EXCEPT ![log_id][field] = value]
    /\ tampered' = IF log_id \in DOMAIN tampered THEN tampered
                   ELSE [i \in DOMAIN tampered \cup {log_id} |->
                            IF i = log_id THEN logs[log_id] ELSE tampered[i]]
    /\ UNCHANGED <<serviceVars, anchorVars, lists, published, writerVars, readerVars, vresp, hubVars>>

(***************************************************************************)
(* websocket.py: ConnectionManager                                         *)
(***************************************************************************)
\* list.remove(x): the first occurrence goes
ListRemove(list, x) ==
    LET i == CHOOSE j \in 1 .. Len(list) :
                 list[j] = x /\ \A k \in 1 .. j - 1 : list[k] # x
    IN  SubSeq(list, 1, i - 1) \o SubSeq(list, i + 1, Len(list))

InList(list, x) == \E i \in 1 .. Len(list) : list[i] = x

\* a connect that registers the websocket under its user only
ManagerConnectUserOnly(c, user_id) ==
    /\ active_connections' = active_connections
    /\ user_connections' =
         IF ~ Truthy(user_id) THEN user_connections
         ELSE [u \in DOMAIN user_connections \cup {user_id} |->
                  IF u \in DOMAIN user_connections
                  THEN IF u = user_id THEN Append(user_connections[u], c)
                       ELSE user_connections[u]
                  ELSE <<c>>]

\* manager.connect after websocket.accept()
ManagerConnect(c, user_id) ==
    /\ active_connections' = Append(active_connections, c)
    /\ user_connections' =
         IF ~ Truthy(user_id) THEN user_connections
         ELSE [u \in DOMAIN user_connections \cup {user_id} |->
                  IF u \in DOMAIN user_connections
                  THEN IF u = user_id THEN Append(user_connections[u], c)
                       ELSE user_connections[u]
                  ELSE <<c>>]

\* manager.disconnect
ManagerDisconnect(c, user_id) ==
    /\ active_connections' =
         IF InList(active_connections, c) THEN ListRemove(active_connections, c)
         ELSE active_connections
    /\ user_connections' =
         IF Truthy(user_id) /\ user_id \in DOMAIN user_connections
         THEN LET rest == IF InList(user_connections[user_id], c)
                          THEN ListRemove(user_connections[user_id], c)
                          ELSE user_connections[user_id]
              IN  IF rest = << >>
                  THEN [u \in DOMAIN user_connections \ {user_id} |-> user_connections[u]]
                  ELSE [user_connections EXCEPT ![user_id] = rest]
         ELSE user_connections

\* get_logs run without interruption, as the event loop runs it
GetLogsNow(user_id, limit, offset) ==
    LET ids == ListIds(user_id, limit, offset)
        kept == SelectSeq(ids, HasData)
    IN  [i \in 1 .. Len(kept) |-> to_dict(get_by_id(kept[i]))]

(***************************************************************************)
(* main.py endpoints, websocket.py logs_websocket_handler and log_streamer *)
(***************************************************************************)
\* a client opens /ws/logs or /ws/stream: manager.connect
Connect(c, endpoint, user_id) ==
    /\ cpc[c] = "new"
    /\ alive[c]
    /\ ManagerConnect(c, user_id)
    /\ subscribed_at' = [subscribed_at EXCEPT ![c] = Len(published)]
    /\ cendpoint' = [cendpoint EXCEPT ![c] = endpoint]
    /\ cuser' = [cuser EXCEPT ![c] = user_id]
    /\ cpc' = [cpc EXCEPT ![c] = IF endpoint = "logs" THEN "snapshot" ELSE "initial"]
    /\ UNCHANGED <<serviceVars, anchorVars, lcopy, storeVars, writerVars, readerVars, verifyVars, alive, received,
                   beats, lpos, lmsg, lqueue>>

\* logs_websocket_handler: get_logs and the logs_response message; a send
\* that raises is caught and leads to the finally clause
SendSnapshot(c, limit, offset) ==
    /\ cpc[c] = "snapshot"
    /\ IF alive[c]
       THEN /\ received' = [received EXCEPT ![c] =
                               Append(@, [type |-> "logs_response",
                                          user_filter |-> cuser[c],
                                          logs |-> GetLogsNow(cuser[c], limit, offset)])]
            /\ cpc' = [cpc EXCEPT ![c] = "initial"]
       ELSE /\ cpc' = [cpc EXCEPT ![c] = "finally"]
            /\ UNCHANGED received
    /\ UNCHANGED <<serviceVars, anchorVars, subscribed_at, lcopy, storeVars, writerVars, readerVars, verifyVars, active_connections,
                   user_connections, cendpoint, cuser, alive, beats, lpos, lmsg, lqueue>>

\* where a handler goes when log_streamer returns: log_streamer catches
\* what its sends raise, so /ws/logs reaches its finally clause and
\* /ws/stream simply ends
AfterStreamer(c) == IF cendpoint[c] = "logs" THEN "finally" ELSE "done"

\* log_streamer: get_recent_logs and the initial_logs message
SendInitial(c, limit) ==
    /\ cpc[c] = "initial"
    /\ IF alive[c]
       THEN /\ received' = [received EXCEPT ![c] =
                               Append(@, [type |-> "initial_logs",
                                          user_filter |-> cuser[c],
                                          logs |-> GetLogsNow(cuser[c], limit, 0)])]
            /\ cpc' = [cpc EXCEPT ![c] = "streaming"]
       ELSE /\ cpc' = [cpc EXCEPT ![c] = AfterStreamer(c)]
            /\ UNCHANGED received
    /\ UNCHANGED <<serviceVars, anchorVars, subscribed_at, lcopy, storeVars, writerVars, readerVars, verifyVars, active_connections,
                   user_connections, cendpoint, cuser, alive, beats, lpos, lmsg, lqueue>>

\* log_streamer: the loop, one heartbeat after each sleep
Heartbeat(c) ==
    /\ cpc[c] = "streaming"
    /\ IF alive[c]
       THEN /\ beats[c] < MaxBeats
            /\ beats' = [beats EXCEPT ![c] = @ + 1]
            /\ received' = [received EXCEPT ![c] =
                               Append(@, [type |-> "heartbeat",
                                          active_connections |-> Len(active_connections)])]
            /\ UNCHANGED cpc
       ELSE /\ cpc' = [cpc EXCEPT ![c] = AfterStreamer(c)]
            /\ UNCHANGED <<beats, received>>
    /\ UNCHANGED <<serviceVars, anchorVars, subscribed_at, lcopy, storeVars, writerVars, readerVars, verifyVars, active_connections,
                   user_connections, cendpoint, cuser, alive, lpos, lmsg, lqueue>>

\* logs_websocket_handler: finally: manager.disconnect
HandlerFinally(c) ==
    /\ cpc[c] = "finally"
    /\ ManagerDisconnect(c, cuser[c])
    /\ cpc' = [cpc EXCEPT ![c] = "done"]
    /\ UNCHANGED <<serviceVars, anchorVars, subscribed_at, lcopy, storeVars, writerVars, readerVars, verifyVars, cendpoint, cuser,
                   alive, received, beats, lpos, lmsg, lqueue>>

\* the client goes away
DropClient(c) ==
    /\ cpc[c] \notin {"new", "done"}
    /\ alive[c]
    /\ alive' = [alive EXCEPT ![c] = FALSE]
    /\ UNCHANGED <<serviceVars, anchorVars, subscribed_at, lcopy, storeVars, writerVars, readerVars, verifyVars, active_connections,
                   user_connections, cpc, cendpoint, cuser, received, beats, lpos,
                   lmsg, lqueue>>

(***************************************************************************)
(* websocket.py redis_listener and ConnectionManager.broadcast             *)
(***************************************************************************)
\* a listener that keeps only the newest message of log_updates
ListenerTakeLatest ==
    /\ lqueue = << >>
    /\ lpos < Len(published)
    /\ lpos' = Len(published)
    /\ lmsg' = published[Len(published)]
    /\ lcopy' = active_connections
    /\ lqueue' = active_connections
    /\ UNCHANGED <<serviceVars, anchorVars, subscribed_at, storeVars, writerVars, readerVars, verifyVars,
                   active_connections, user_connections, cpc, cendpoint, cuser, alive,
                   received, beats>>

\* the listener takes the next message of log_updates; broadcast copies
\* active_connections
ListenerTake ==
    /\ lqueue = << >>
    /\ lpos < Len(published)
    /\ lpos' = lpos + 1
    /\ lmsg' = published[lpos + 1]
    /\ lcopy' = active_connections
    /\ lqueue' = active_connections
    /\ UNCHANGED <<serviceVars, anchorVars, subscribed_at, storeVars, writerVars, readerVars, verifyVars, active_connections,
                   user_connections, cpc, cendpoint, cuser, alive, received, beats>>

\* a broadcast that gives up at the first send_text that raises
BroadcastSendAbort ==
    /\ lqueue # << >>
    /\ LET c == Head(lqueue)
       IN  IF alive[c]
           THEN /\ received' = [received EXCEPT ![c] =
                                   Append(@, [type |-> "push", log |-> lmsg])]
                /\ lqueue' = Tail(lqueue)
           ELSE /\ lqueue' = << >>
                /\ UNCHANGED received
    /\ UNCHANGED <<serviceVars, anchorVars, subscribed_at, lcopy, storeVars, writerVars, readerVars, verifyVars,
                   active_connections, user_connections, cpc, cendpoint, cuser, alive,
                   beats, lpos, lmsg>>

\* broadcast: send_text to the next connection of the copy; when it raises
\* the connection is removed from active_connections
BroadcastSend ==
    /\ lqueue # << >>
    /\ LET c == Head(lqueue)
       IN  IF alive[c]
           THEN /\ received' = [received EXCEPT ![c] =
                                   Append(@, [type |-> "push", log |-> lmsg])]
                /\ UNCHANGED active_connections
           ELSE /\ active_connections' =
                     IF InList(active_connections, c)
                     THEN ListRemove(active_connections, c)
                     ELSE active_connections
                /\ UNCHANGED received
    /\ lqueue' = Tail(lqueue)
    /\ UNCHANGED <<serviceVars, anchorVars, subscribed_at, lcopy, storeVars, writerVars, readerVars, verifyVars, user_connections,
                   cpc, cendpoint, cuser, alive, beats, lpos, lmsg>>

\* the write of the entry has returned 200 (its ledger thread was started)
Acknowledged(log_id) == \E p \in bc_started : p[1] = log_id

(***************************************************************************)
(* blockchain_storage.py: store_log_on_blockchain_background runs in the   *)
(* thread create_log starts for an entry; the ledger is the node behind    *)
(* w3 and the contract                                                     *)
(***************************************************************************)
\* the digest the thread of an entry was started with
Digest(t) == (CHOOSE p \in bc_started : p[1] = t)[2]

\* what get_last_blockchain_hash returns when the contract has no log or
\* the call raises
ZeroHash == "0x0"

\* get_last_blockchain_hash: the digest of the last log of the contract
get_last_blockchain_hash ==
    IF Len(chain) = 0 THEN ZeroHash ELSE chain[Len(chain)].logHash

\* w3.eth.get_transaction_count(address): the transactions of the account
\* that are mined
get_transaction_count == Len(chain)

\* a thread that enters without taking _last_hash_lock
BcAcquireNoLock(t) ==
    /\ Acknowledged(t)
    /\ bpc[t] = "new"
    /\ last_hash_lock' = t
    /\ bpc' = [bpc EXCEPT ![t] = "read"]
    /\ UNCHANGED <<serviceVars, storeVars, writerVars, readerVars, verifyVars, hubVars, nonce_lock, last_hash,
                   current_nonce, bprev, bnonce, bresult, chain, pending, acked,
                   allocs, anchors>>

\* store_log_hash: with self._last_hash_lock
BcAcquire(t) ==
    /\ Acknowledged(t)
    /\ bpc[t] = "new"
    /\ last_hash_lock = None
    /\ last_hash_lock' = t
    /\ bpc' = [bpc EXCEPT ![t] = "read"]
    /\ UNCHANGED <<serviceVars, storeVars, writerVars, readerVars, verifyVars, hubVars, nonce_lock, last_hash,
                   current_nonce, bprev, bnonce, bresult, chain, pending, acked,
                   allocs, anchors>>

\* store_log_hash: _last_hash is read from the contract when it is None
\* (a call that raises gives "0x0"); prev_hash = self._last_hash
BcReadPrev(t) ==
    /\ bpc[t] = "read"
    /\ \E fetched \in {get_last_blockchain_hash, ZeroHash} :
           LET last == IF last_hash = None THEN fetched ELSE last_hash
           IN  /\ last_hash' = last
               /\ bprev' = [bprev EXCEPT ![t] = last]
    /\ anchors' = Append(anchors, t)
    /\ bpc' = [bpc EXCEPT ![t] = "nonce"]
    /\ UNCHANGED <<serviceVars, storeVars, writerVars, readerVars, verifyVars, hubVars, nonce_lock, current_nonce,
                   last_hash_lock, bnonce, bresult, chain, pending, acked, allocs>>

\* get_next_nonce: with self._nonce_lock
NonceAcquire(t) ==
    /\ bpc[t] = "nonce"
    /\ nonce_lock = None
    /\ nonce_lock' = t
    /\ bpc' = [bpc EXCEPT ![t] = "count"]
    /\ UNCHANGED <<serviceVars, storeVars, writerVars, readerVars, verifyVars, hubVars, last_hash,
                   current_nonce, last_hash_lock, bprev, bnonce, bresult, chain, pending,
                   acked, allocs, anchors>>

\* get_next_nonce, under _nonce_lock: _current_nonce is set to the
\* account's transaction count, which is returned, and then incremented
GetNextNonce(t) ==
    /\ bpc[t] = "count"
    /\ LET nonce == get_transaction_count
       IN  /\ current_nonce' = nonce + 1
           /\ bnonce' = [bnonce EXCEPT ![t] = nonce]
           /\ allocs' = Append(allocs, [thread |-> t, nonce |-> nonce])
    /\ nonce_lock' = None
    /\ bpc' = [bpc EXCEPT ![t] = "send"]
    /\ UNCHANGED <<serviceVars, storeVars, writerVars, readerVars, verifyVars, hubVars, last_hash,
                   last_hash_lock, bprev, bresult, chain, pending, acked, anchors>>

\* the transaction store_log_hash builds
Txn(t) == [logHash |-> Digest(t), prevHash |-> bprev[t], nonce |-> bnonce[t]]

\* the node takes a transaction whose nonce is not used up; it replaces a
\* transaction of the same nonce that waits to be mined
NodeTakes(txn) ==
    /\ txn.nonce >= get_transaction_count
    /\ pending' = {p \in pending : p.nonce # txn.nonce} \cup {txn}
    /\ acked' = acked \cup {txn.logHash}

\* a store_log_hash that records the digest whatever becomes of the
\* transaction
BcSendOkOrNot(t) ==
    /\ bpc[t] = "send"
    /\ \/ NodeTakes(Txn(t)) /\ bresult' = [bresult EXCEPT ![t] = "tx"]
       \/ UNCHANGED <<pending, acked>> /\ bresult' = [bresult EXCEPT ![t] = None]
    /\ last_hash' = Digest(t)
    /\ last_hash_lock' = None
    /\ bpc' = [bpc EXCEPT ![t] = "done"]
    /\ UNCHANGED <<serviceVars, storeVars, writerVars, readerVars, verifyVars, hubVars, nonce_lock, current_nonce,
                   bprev, bnonce, chain, allocs, anchors>>

\* store_log_hash: sign_transaction, send_raw_transaction returns the
\* transaction hash, _last_hash = current_hash, the lock is released
BcSendOk(t) ==
    /\ bpc[t] = "send"
    /\ NodeTakes(Txn(t))
    /\ last_hash' = Digest(t)
    /\ bresult' = [bresult EXCEPT ![t] = "tx"]
    /\ last_hash_lock' = None
    /\ bpc' = [bpc EXCEPT ![t] = "done"]
    /\ UNCHANGED <<serviceVars, storeVars, writerVars, readerVars, verifyVars, hubVars, nonce_lock, current_nonce,
                   bprev, bnonce, chain, allocs, anchors>>

\* a store_log_hash that has set _last_hash before the submission failed
BcFailRecordsDigest(t) ==
    /\ bpc[t] \in {"nonce", "count", "send"}
    /\ last_hash' = Digest(t)
    /\ bresult' = [bresult EXCEPT ![t] = None]
    /\ last_hash_lock' = None
    /\ nonce_lock' = IF nonce_lock = t THEN None ELSE nonce_lock
    /\ bpc' = [bpc EXCEPT ![t] = "done"]
    /\ UNCHANGED <<serviceVars, storeVars, writerVars, readerVars, verifyVars, hubVars, current_nonce,
                   bprev, bnonce, chain, pending, acked, allocs, anchors>>

\* a failure of the submission that reaches the request of the writer
BcFailPropagated(t) ==
    /\ bpc[t] \in {"nonce", "count", "send"}
    /\ bresult' = [bresult EXCEPT ![t] = None]
    /\ last_hash_lock' = None
    /\ nonce_lock' = IF nonce_lock = t THEN None ELSE nonce_lock
    /\ bpc' = [bpc EXCEPT ![t] = "done"]
    /\ wresp' = [w \in Writers |->
                    [status |-> 500, body |-> [detail |-> "Internal Server Error"]]]
    /\ UNCHANGED <<serviceVars, storeVars, now, next_id, wpc, wentry, wdone, bc_started, store_failed,
                   untrimmed, pushed, readerVars, verifyVars, hubVars, last_hash, current_nonce,
                   bprev, bnonce, chain, pending, acked, allocs, anchors>>

\* a store_log_hash that starts over after a failure
BcFailRetry(t) ==
    /\ bpc[t] \in {"nonce", "count", "send"}
    /\ bresult' = [bresult EXCEPT ![t] = None]
    /\ last_hash_lock' = None
    /\ nonce_lock' = IF nonce_lock = t THEN None ELSE nonce_lock
    /\ bpc' = [bpc EXCEPT ![t] = "new"]
    /\ UNCHANGED <<serviceVars, storeVars, writerVars, readerVars, verifyVars, hubVars, last_hash,
                   current_nonce, bprev, bnonce, chain, pending, acked, allocs, anchors>>

\* a store_log_hash that leaves with its locks held when the submission
\* fails
BcFailKeepsLocks(t) ==
    /\ bpc[t] \in {"nonce", "count", "send"}
    /\ bresult' = [bresult EXCEPT ![t] = None]
    /\ bpc' = [bpc EXCEPT ![t] = "done"]
    /\ UNCHANGED <<serviceVars, storeVars, writerVars, readerVars, verifyVars, hubVars, last_hash,
                   current_nonce, last_hash_lock, nonce_lock, bprev, bnonce, chain,
                   pending, acked, allocs, anchors>>

\* store_log_hash: get_transaction_count, gas_price, sign_transaction or
\* send_raw_transaction raises (network error, rejection): the lock is
\* released, the exception is printed, None is returned
BcFail(t) ==
    /\ bpc[t] \in {"nonce", "count", "send"}
    /\ bresult' = [bresult EXCEPT ![t] = None]
    /\ last_hash_lock' = None
    /\ nonce_lock' = IF nonce_lock = t THEN None ELSE nonce_lock
    /\ bpc' = [bpc EXCEPT ![t] = "done"]
    /\ UNCHANGED <<serviceVars, storeVars, writerVars, readerVars, verifyVars, hubVars, last_hash,
                   current_nonce, bprev, bnonce, chain, pending, acked, allocs, anchors>>

\* the ledger mines the waiting transaction whose nonce is the next of the
\* account
LedgerMine ==
    /\ \E txn \in pending :
           /\ txn.nonce = get_transaction_count
           /\ chain' = Append(chain, txn)
           /\ pending' = pending \ {txn}
    /\ UNCHANGED <<serviceVars, storeVars, writerVars, readerVars, verifyVars, hubVars, nonce_lock, last_hash,
                   current_nonce, last_hash_lock, bpc, bprev, bnonce, bresult, acked,
                   allocs, anchors>>

(***************************************************************************)
(* main.py lifespan: the service stops                                     *)
(***************************************************************************)
\* Shutdown closes the Redis connection and the process exits.  The ledger
\* threads are daemon threads (routes.py create_log): the interpreter does
\* not join them, they stop wherever they are.
Shutdown ==
    /\ ~ exited
    /\ exited' = TRUE
    /\ UNCHANGED <<storeVars, writerVars, readerVars, verifyVars, hubVars, anchorVars,
                   sessionVars, userVars, digestVars, adminVars>>

\* The service is started again: blockchain_storage = BlockchainStorage()
\* runs in the new process, with _last_hash = None, _current_nonce = None
\* and fresh locks.  The requests and threads of the old process are gone;
\* Redis and the ledger keep what they hold.
Restart ==
    /\ exited
    /\ exited' = FALSE
    /\ last_hash' = None
    /\ current_nonce' = NoNonce
    /\ last_hash_lock' = None
    /\ nonce_lock' = None
    /\ bpc' = [t \in LogIds |->
                  IF Acknowledged(t) /\ bpc[t] # "done" THEN "killed" ELSE bpc[t]]
    /\ wpc' = [w \in Writers |-> 0]
    /\ wentry' = [w \in Writers |-> NoEntry]
    /\ wdone' = [w \in Writers |-> << >>]
    /\ wresp' = [w \in Writers |-> NoResponse]
    /\ UNCHANGED <<storeVars, now, next_id, bc_started, store_failed, untrimmed, pushed,
                   readerVars, verifyVars, hubVars, bprev, bnonce, bresult, chain,
                   pending, acked, allocs, anchors, sessionVars, userVars, digestVars, adminVars>>

(***************************************************************************)
(* auth.py and models.py Session                                           *)
(***************************************************************************)
\* login -> create_session: a fresh token, Session.save stores the binding
\* with SETEX, the TTL being the time left until expires_at
Login(user_id) ==
    /\ Truthy(user_id)
    /\ next_token < MaxTokens
    /\ now + ExpireWindow <= MaxTime
    /\ LET token == Token(next_token + 1)
           expires_at == now + ExpireWindow
           ttl == expires_at - now
           session_data == [user_id |-> user_id, created_at |-> IsoFormat(now),
                            expires_at |-> IsoFormat(expires_at)]
       IN  /\ sessions' = [k \in DOMAIN sessions \cup {token} |->
                              IF k = token
                              THEN [data |-> session_data, ttl_until |-> now + ttl]
                              ELSE sessions[k]]
           /\ issued' = [k \in DOMAIN issued \cup {token} |->
                            IF k = token
                            THEN [user_id |-> user_id, created_at |-> now,
                                  expires_at |-> expires_at]
                            ELSE issued[k]]
    /\ next_token' = next_token + 1
    /\ UNCHANGED <<storeVars, writerVars, readerVars, verifyVars, hubVars, anchorVars,
                   exited, adminVars, userVars, digestVars>>

\* GET session:{token} finds the key: it was set and its TTL has not run out
RedisHasSession(token) ==
    token \in DOMAIN sessions /\ now < sessions[token].ttl_until

\* Session.get_by_token
get_by_token_no_expiry(token) ==
    IF token \in DOMAIN sessions
    THEN [user_id |-> sessions[token].data.user_id]
    ELSE NoSession
get_by_token(token) ==
    IF RedisHasSession(token)
    THEN IF FromIsoFormat(sessions[token].data.expires_at) > now
         THEN [user_id |-> sessions[token].data.user_id]
         ELSE NoSession
    ELSE NoSession

\* verify_token: the user_id of the session, or None
verify_token(token) ==
    IF get_by_token(token) # NoSession THEN get_by_token(token).user_id ELSE None

\* the HTTPException of get_current_user
Unauthorized == [status |-> 401, body |-> [detail |-> "Invalid or expired token"]]

\* get_current_user: the subject, or the 401
get_current_user_expired_detail(token) ==
    IF verify_token(token) # None
    THEN [status |-> 200, user_id |-> verify_token(token)]
    ELSE IF token \in DOMAIN sessions
    THEN [status |-> 401, body |-> [detail |-> "Token expired"]]
    ELSE Unauthorized
get_current_user(token) ==
    IF verify_token(token) # None
    THEN [status |-> 200, user_id |-> verify_token(token)]
    ELSE Unauthorized

\* the dependency raised: the framework answers, create_log never runs
Reject(w, response) ==
    /\ wpc[w] = 0
    /\ wresp' = [wresp EXCEPT ![w] = response]
    /\ wpc' = [wpc EXCEPT ![w] = Responding]
    /\ UNCHANGED <<serviceVars, anchorVars, storeVars, now, next_id, wentry, wdone,
                   bc_started, store_failed, untrimmed, pushed, readerVars, verifyVars, hubVars>>

\* PUT /logs with a bearer token: get_current_user, then create_log with the
\* subject it returned
PutLogsSubjectFromBody(w, token, query, status) ==
    IF get_current_user(token).status = 401
    THEN Reject(w, get_current_user(token))
    ELSE CreateLog(w, "a", query, status)
PutLogs(w, token, query, status) ==
    IF get_current_user(token).status = 401
    THEN Reject(w, get_current_user(token))
    ELSE CreateLog(w, get_current_user(token).user_id, query, status)

(***************************************************************************)
(* backend/app: the admin table (api/v1/admins.py, utils/admin_safety.py,  *)
(* core/dependencies.py).  Every request has a database session of its    *)
(* own; nothing in the code locks a row or the table, so the statements of *)
(* concurrent requests interleave (each statement is atomic).              *)
(***************************************************************************)
\* get_current_user .. get_current_super_admin: the caller's row exists, is
\* active and has role super_admin
get_current_super_admin(actor) ==
    /\ actor \in DOMAIN admins
    /\ admins[actor].is_active
    /\ admins[actor].role = "super_admin"

\* count_active_super_admins
count_active_super_admins ==
    Cardinality({a \in DOMAIN admins :
                    admins[a].role = "super_admin" /\ admins[a].is_active})

\* session.get(Admin, admin_id): the row as the session loads it
SessionGet(admin_id) ==
    IF admin_id \in DOMAIN admins
    THEN [id |-> admin_id, role |-> admins[admin_id].role,
          is_active |-> admins[admin_id].is_active]
    ELSE NoAdmin

\* requests that will insert a row
Creating == {p \in AdminRequests : areq[p].op = "create"}

\* the dependencies of a request are resolved: the caller is a super admin
AdminAuthenticate(p, actor, op, target, role, hard_delete) ==
    /\ apc[p] = "idle"
    /\ get_current_super_admin(actor)
    /\ op = "create" => next_admin + Cardinality(Creating) < MaxAdmins
    /\ areq' = [areq EXCEPT ![p] = [op |-> op, actor |-> actor, target |-> target,
                                    role |-> role, hard_delete |-> hard_delete]]
    /\ apc' = [apc EXCEPT ![p] = "authed"]
    /\ UNCHANGED <<storeVars, writerVars, readerVars, verifyVars, hubVars, anchorVars,
                   exited, sessionVars, userVars, digestVars, admins, aadmin, acount, next_admin>>

\* the request is answered (with its result or with an HTTPException)
AdminRespond(p) ==
    /\ apc' = [apc EXCEPT ![p] = "idle"]
    /\ areq' = [areq EXCEPT ![p] = NoRequest]
    /\ aadmin' = [aadmin EXCEPT ![p] = NoAdmin]
    /\ acount' = [acount EXCEPT ![p] = 0]

\* create_admin: the role is validated, the row inserted and committed
CreateAdmin(p) ==
    /\ apc[p] = "authed"
    /\ areq[p].op = "create"
    /\ IF areq[p].role \in {"admin", "super_admin"}
       THEN /\ admins' = [a \in DOMAIN admins \cup {AdminId(next_admin + 1)} |->
                             IF a \in DOMAIN admins
                             THEN admins[a]
                             ELSE [role |-> areq[p].role, is_active |-> TRUE]]
            /\ next_admin' = next_admin + 1
       ELSE UNCHANGED <<admins, next_admin>>
    /\ AdminRespond(p)
    /\ UNCHANGED <<storeVars, writerVars, readerVars, verifyVars, hubVars, anchorVars,
                   exited, sessionVars, userVars, digestVars>>

\* update_admin_role up to the assignment: the row is loaded; 404 without
\* it, 400 for a self-demotion or an invalid role
UpdateAdminRoleGet(p) ==
    /\ apc[p] = "authed"
    /\ areq[p].op = "role"
    /\ LET admin == SessionGet(areq[p].target) IN
       IF \/ admin = NoAdmin
          \/ admin.id = areq[p].actor /\ areq[p].role # "super_admin"
          \/ areq[p].role \notin {"admin", "super_admin"}
       THEN AdminRespond(p)
       ELSE /\ aadmin' = [aadmin EXCEPT ![p] = admin]
            /\ apc' = [apc EXCEPT ![p] = "loaded"]
            /\ UNCHANGED <<areq, acount>>
    /\ UNCHANGED <<storeVars, writerVars, readerVars, verifyVars, hubVars, anchorVars,
                   exited, sessionVars, userVars, digestVars, admins, next_admin>>

\* update_admin_role: commit writes the new role of the row
UpdateAdminRoleCommit(p) ==
    /\ apc[p] = "loaded"
    /\ areq[p].op = "role"
    /\ admins' = IF areq[p].target \in DOMAIN admins
                 THEN [admins EXCEPT ![areq[p].target].role = areq[p].role]
                 ELSE admins
    /\ AdminRespond(p)
    /\ UNCHANGED <<storeVars, writerVars, readerVars, verifyVars, hubVars, anchorVars,
                   exited, sessionVars, userVars, digestVars, next_admin>>

\* delete_admin up to the count: the row is loaded; 404 without it, 400 for
\* a self-deletion; can_delete_admin gets the same row from the session and
\* refuses an inactive one
DeleteAdminGet(p) ==
    /\ apc[p] = "authed"
    /\ areq[p].op = "delete"
    /\ LET admin == SessionGet(areq[p].target) IN
       IF \/ admin = NoAdmin
          \/ admin.id = areq[p].actor
          \/ ~ admin.is_active
       THEN AdminRespond(p)
       ELSE /\ aadmin' = [aadmin EXCEPT ![p] = admin]
            /\ apc' = [apc EXCEPT ![p] =
                          IF admin.role = "super_admin" THEN "counting" ELSE "checked"]
            /\ UNCHANGED <<areq, acount>>
    /\ UNCHANGED <<storeVars, writerVars, readerVars, verifyVars, hubVars, anchorVars,
                   exited, sessionVars, userVars, digestVars, admins, next_admin>>

\* can_delete_admin for a super admin: count the active super admins and
\* refuse to delete the last one
DeleteAdminCount(p) ==
    /\ apc[p] = "counting"
    /\ IF count_active_super_admins <= 1
       THEN AdminRespond(p)
       ELSE /\ acount' = [acount EXCEPT ![p] = count_active_super_admins]
            /\ apc' = [apc EXCEPT ![p] = "checked"]
            /\ UNCHANGED <<areq, aadmin>>
    /\ UNCHANGED <<storeVars, writerVars, readerVars, verifyVars, hubVars, anchorVars,
                   exited, sessionVars, userVars, digestVars, admins, next_admin>>

\* delete_admin: commit deletes the row (hard) or writes is_active = False
DeleteAdminCommit(p) ==
    /\ apc[p] = "checked"
    /\ admins' = IF areq[p].target \notin DOMAIN admins
                 THEN admins
                 ELSE IF areq[p].hard_delete
                 THEN [a \in DOMAIN admins \ {areq[p].target} |-> admins[a]]
                 ELSE [admins EXCEPT ![areq[p].target].is_active = FALSE]
    /\ AdminRespond(p)
    /\ UNCHANGED <<storeVars, writerVars, readerVars, verifyVars, hubVars, anchorVars,
                   exited, sessionVars, userVars, digestVars, next_admin>>

(***************************************************************************)
(* backend/app: the user table (models/user.py, api/v1/users.py,           *)
(* api/v1/auth.py).  The caller of approve, block and unblock is an admin, *)
(* the caller of delete a super admin; a handler runs from its read of the *)
(* row to its commit.                                                      *)
(***************************************************************************)
\* register_user: the row is inserted pending approval
RegisterUser ==
    /\ next_user < MaxUsers
    /\ users' = [u \in DOMAIN users \cup {UserId(next_user + 1)} |->
                    IF u \in DOMAIN users
                    THEN users[u]
                    ELSE [is_approved |-> FALSE, is_active |-> TRUE,
                          is_blocked |-> FALSE]]
    /\ next_user' = next_user + 1
    /\ UNCHANGED <<storeVars, writerVars, readerVars, verifyVars, hubVars, anchorVars,
                   exited, sessionVars, adminVars, digestVars>>

\* User.block_user
block_user(user) ==
    [user EXCEPT !.is_blocked = TRUE, !.is_approved = FALSE, !.is_active = FALSE]

\* User.unblock_user
unblock_user(user) ==
    [user EXCEPT !.is_blocked = FALSE, !.is_active = TRUE, !.is_approved = TRUE]

\* approve_user: 404 without the row; is_approved is set as the body says
ApproveUser(user_id, is_approved) ==
    /\ user_id \in DOMAIN users
    /\ users' = [users EXCEPT ![user_id].is_approved = is_approved]
    /\ UNCHANGED <<storeVars, writerVars, readerVars, verifyVars, hubVars, anchorVars,
                   exited, sessionVars, adminVars, next_user, digestVars>>

\* delete_user: 404 without the row; the row is deleted (hard) or marked
\* inactive
DeleteUser(user_id, hard_delete) ==
    /\ user_id \in DOMAIN users
    /\ users' = IF hard_delete
                THEN [u \in DOMAIN users \ {user_id} |-> users[u]]
                ELSE [users EXCEPT ![user_id].is_active = FALSE]
    /\ UNCHANGED <<storeVars, writerVars, readerVars, verifyVars, hubVars, anchorVars,
                   exited, sessionVars, adminVars, next_user, digestVars>>

\* block_user: 404 without the row, 400 if it is blocked already
BlockUser(user_id) ==
    /\ user_id \in DOMAIN users
    /\ ~ users[user_id].is_blocked
    /\ users' = [users EXCEPT ![user_id] = block_user(@)]
    /\ UNCHANGED <<storeVars, writerVars, readerVars, verifyVars, hubVars, anchorVars,
                   exited, sessionVars, adminVars, next_user, digestVars>>

\* unblock_user: 404 without the row, 400 if it is not blocked
UnblockUser(user_id) ==
    /\ user_id \in DOMAIN users
    /\ users[user_id].is_blocked
    /\ users' = [users EXCEPT ![user_id] = unblock_user(@)]
    /\ UNCHANGED <<storeVars, writerVars, readerVars, verifyVars, hubVars, anchorVars,
                   exited, sessionVars, adminVars, next_user, digestVars>>

(***************************************************************************)
(* security.py called on field values of any text                          *)
(***************************************************************************)
\* generate_log_hash(user_id, query, status, timestamp)
GenerateLogHash(user_id, query, status, timestamp) ==
    /\ hentry' = [user_id |-> user_id, query |-> query, status |-> status,
                  timestamp |-> timestamp,
                  log_data |-> LogData(user_id, query, status, timestamp),
                  hash |-> generate_log_hash(user_id, query, status, timestamp)]
    /\ hcheck' = NoFields
    /\ UNCHANGED <<storeVars, writerVars, readerVars, verifyVars, hubVars, anchorVars,
                   exited, sessionVars, adminVars, userVars>>

\* verify_log_hash(user_id, query, status, timestamp, provided_hash) on the
\* digest generate_log_hash returned
VerifyLogHash(user_id, query, status, timestamp) ==
    /\ hentry # NoFields
    /\ hcheck' = [user_id |-> user_id, query |-> query, status |-> status,
                  timestamp |-> timestamp,
                  log_data |-> LogData(user_id, query, status, timestamp),
                  valid |-> verify_log_hash(user_id, query, status, timestamp,
                                            hentry.hash)]
    /\ UNCHANGED <<storeVars, writerVars, readerVars, verifyVars, hubVars, anchorVars,
                   exited, sessionVars, adminVars, userVars, hentry>>

(***************************************************************************)
(* Specification of the log store under concurrent writers and a store     *)
(* that can fail.  get and list change nothing in the store, so what they  *)
(* can observe at any point of an interleaving is what holds in the state. *)
(***************************************************************************)
StoreQueries == {"SELECT 1"}
StoreStatuses == {"SUCCESS"}

NextStore ==
    \/ \E w \in Writers, u \in Users, q \in StoreQueries, s \in StoreStatuses :
           CreateLog(w, u, q, s)
    \/ \E w \in Writers : SaveStep(w)
    \/ \E w \in Writers : StoreFail(w)
    \/ \E w \in Writers : ReturnLog(w)
    \/ \E w \in Writers : EndRequest(w)

SpecStore == Init /\ [][NextStore]_vars

(***************************************************************************)
(* Specification of list: one writer, a store that can fail, and a caller  *)
(* of get_logs running concurrently with the writer                        *)
(***************************************************************************)
ListFilters == Users \cup {None, ""}

NextList ==
    \/ \E u \in Users, q \in StoreQueries, s \in StoreStatuses : CreateLog("w1", u, q, s)
    \/ SaveStep("w1")
    \/ StoreFail("w1")
    \/ ReturnLog("w1")
    \/ EndRequest("w1")
    \/ \E r \in Readers, u \in ListFilters, limit \in 0 .. MaxLimit, offset \in 0 .. MaxOffset :
           GetLogsStart(r, u, limit, offset)
    \/ \E r \in Readers : GetLogsFetch(r)
    \/ \E r \in Readers : GetLogsReturn(r)

SpecList == Init /\ [][NextList]_vars

(***************************************************************************)
(* Specification of verification: entries are written, possibly with empty *)
(* texts, the store is edited behind the service, entries are verified     *)
(***************************************************************************)
VerifyUsers == {"a"}
VerifyQueries == {"", "SELECT 1"}
VerifyStatuses == {"", "SUCCESS"}

\* the texts an edited field can be given
TamperValues(field) ==
    IF field = "timestamp"
    THEN {"", "yesterday", IsoText(0, "T"), IsoText(0, " "), IsoText(1, "T")}
    ELSE {"", "b", "SELECT 1", "ERROR"}

TamperFields == {"user_id", "query", "status", "timestamp"}

NextVerify ==
    \/ \E u \in VerifyUsers, q \in VerifyQueries, s \in VerifyStatuses :
           /\ next_id < MaxVerifyLogs
           /\ CreateLog("w1", u, q, s)
    \/ SaveStep("w1")
    \/ ReturnLog("w1")
    \/ EndRequest("w1")
    \/ \E i \in 1 .. MaxVerifyLogs + 1 : VerifyLog(Uuid(i))
    \/ \E i \in 1 .. MaxVerifyLogs, f \in TamperFields :
           \E v \in TamperValues(f) : Tamper(Uuid(i), f, v)

SpecVerify == Init /\ [][NextVerify]_vars

(***************************************************************************)
(* Specification of the hub: one writer, clients of both websocket         *)
(* endpoints that come and go, the listener broadcasting what is published *)
(***************************************************************************)
\* the first websocket is a client of /ws/logs, the second of /ws/stream
HubEndpoint(c) == IF c = "c1" THEN "logs" ELSE "stream"
HubFilters == {None, "a"}

NextHub ==
    \/ \E u \in Users, q \in StoreQueries, s \in StoreStatuses :
           /\ next_id < MaxHubLogs
           /\ CreateLog("w1", u, q, s)
    \/ SaveStep("w1")
    \/ ReturnLog("w1")
    \/ EndRequest("w1")
    \/ \E c \in Conns, u \in HubFilters : Connect(c, HubEndpoint(c), u)
    \/ \E c \in Conns : SendSnapshot(c, MaxLimit, 0)
    \/ \E c \in Conns : SendInitial(c, MaxLimit)
    \/ \E c \in Conns : Heartbeat(c)
    \/ \E c \in Conns : HandlerFinally(c)
    \/ \E c \in Conns : DropClient(c)
    \/ ListenerTake
    \/ BroadcastSend

SpecHub == Init /\ [][NextHub]_vars

(***************************************************************************)
(* Specification of the live feed of one subscriber of /ws/logs: a writer, *)
(* the subscriber, the listener.  The event loop runs every task that can  *)
(* run, so the listener and its broadcast are weakly fair.                 *)
(***************************************************************************)
\* (ListenerTake always changes lpos, BroadcastSend always changes lqueue)
ListenerFairness == WF_lpos(ListenerTake) /\ WF_lqueue(BroadcastSend)

\* the subjects of the end-to-end scenario: entries are written for
\* subjects a, b, a, ...
FeedSubject(i) == IF i % 2 = 1 THEN "a" ELSE "b"

NextFeed ==
    \/ \E q \in StoreQueries, s \in StoreStatuses :
           /\ next_id < MaxFeedLogs
           /\ CreateLog("w1", FeedSubject(next_id + 1), q, s)
    \/ SaveStep("w1")
    \/ ReturnLog("w1")
    \/ EndRequest("w1")
    \/ \E u \in HubFilters : Connect("c1", "logs", u)
    \/ SendSnapshot("c1", MaxLimit, 0)
    \/ SendInitial("c1", MaxLimit)
    \/ Heartbeat("c1")
    \/ HandlerFinally("c1")
    \/ DropClient("c1")
    \/ ListenerTake
    \/ BroadcastSend

SpecFeed == Init /\ [][NextFeed]_vars /\ ListenerFairness

(***************************************************************************)
(* Specification of the fan-out: a writer, two subscribers of /ws/stream    *)
(* without filter that come and go, the listener.  The heartbeats of       *)
(* log_streamer are left out: on /ws/stream they change nothing that the   *)
(* broadcast reads.                                                        *)
(***************************************************************************)
NextFanout ==
    \/ \E q \in StoreQueries, s \in StoreStatuses :
           /\ next_id < MaxFanoutLogs
           /\ CreateLog("w1", FeedSubject(next_id + 1), q, s)
    \/ SaveStep("w1")
    \/ ReturnLog("w1")
    \/ EndRequest("w1")
    \/ \E c \in Conns : Connect(c, "stream", None)
    \/ \E c \in Conns : SendInitial(c, MaxLimit)
    \/ \E c \in Conns : DropClient(c)
    \/ ListenerTake
    \/ BroadcastSend

SpecFanout == Init /\ [][NextFanout]_vars /\ ListenerFairness

(***************************************************************************)
(* Specification of the ledger anchor: a writer whose entries differ in    *)
(* their query, so that their digests differ, the threads submitting the   *)
(* digests, and the ledger.  A submission that never returns is a thread   *)
(* that takes no further step.                                             *)
(***************************************************************************)
AnchorQuery(i) == "SELECT " \o ToString(i)

NextAnchor ==
    \/ \E s \in StoreStatuses :
           /\ next_id < MaxAnchorLogs
           /\ CreateLog("w1", "a", AnchorQuery(next_id + 1), s)
    \/ SaveStep("w1")
    \/ ReturnLog("w1")
    \/ EndRequest("w1")
    \/ \E t \in LogIds : BcAcquire(t)
    \/ \E t \in LogIds : BcReadPrev(t)
    \/ \E t \in LogIds : NonceAcquire(t)
    \/ \E t \in LogIds : GetNextNonce(t)
    \/ \E t \in LogIds : BcSendOk(t)
    \/ \E t \in LogIds : BcFail(t)
    \/ LedgerMine

SpecAnchor == Init /\ [][NextAnchor]_vars

(***************************************************************************)
(* Specification of concurrent writers of one subject while the clock      *)
(* advances                                                                *)
(***************************************************************************)
NextOrder ==
    \/ \E w \in Writers, q \in StoreQueries, s \in StoreStatuses : CreateLog(w, "a", q, s)
    \/ \E w \in Writers : SaveStep(w)
    \/ \E w \in Writers : ReturnLog(w)
    \/ \E w \in Writers : EndRequest(w)
    \/ Tick

SpecOrder == Init /\ [][NextOrder]_vars

(***************************************************************************)
(* Specification of the ledger anchor while the service can be stopped     *)
(***************************************************************************)
NextShutdown ==
    \/ \E s \in StoreStatuses :
           /\ ~ exited
           /\ next_id < MaxAnchorLogs
           /\ CreateLog("w1", "a", AnchorQuery(next_id + 1), s)
    \/ ~ exited /\ SaveStep("w1")
    \/ ~ exited /\ ReturnLog("w1")
    \/ ~ exited /\ EndRequest("w1")
    \/ \E t \in LogIds : ~ exited /\ BcAcquire(t)
    \/ \E t \in LogIds : ~ exited /\ BcReadPrev(t)
    \/ \E t \in LogIds : ~ exited /\ NonceAcquire(t)
    \/ \E t \in LogIds : ~ exited /\ GetNextNonce(t)
    \/ \E t \in LogIds : ~ exited /\ BcSendOk(t)
    \/ \E t \in LogIds : ~ exited /\ BcFail(t)
    \/ Shutdown
    \/ LedgerMine

SpecShutdown == Init /\ [][NextShutdown]_vars

(***************************************************************************)
(* Specification of sessions: subjects log in, the clock advances and      *)
(* sessions expire, and write requests arrive with valid, expired and      *)
(* made-up tokens                                                          *)
(***************************************************************************)
NextSessions ==
    \/ \E u \in Users : Login(u)
    \/ \E token \in Tokens, q \in StoreQueries, s \in StoreStatuses :
           PutLogs("w1", token, q, s)
    \/ SaveStep("w1")
    \/ ReturnLog("w1")
    \/ EndRequest("w1")
    \/ Tick

SpecSessions == Init /\ [][NextSessions]_vars

(***************************************************************************)
(* Specification of the admin table under concurrent requests of super     *)
(* admins                                                                  *)
(***************************************************************************)
NextAdmins ==
    \/ \E p \in AdminRequests, actor \in AdminIds, role \in AdminRoles :
           AdminAuthenticate(p, actor, "create", None, role, FALSE)
    \/ \E p \in AdminRequests, actor \in AdminIds, target \in AdminIds,
          role \in AdminRoles :
           AdminAuthenticate(p, actor, "role", target, role, FALSE)
    \/ \E p \in AdminRequests, actor \in AdminIds, target \in AdminIds,
          hard_delete \in BOOLEAN :
           AdminAuthenticate(p, actor, "delete", target, None, hard_delete)
    \/ \E p \in AdminRequests : CreateAdmin(p)
    \/ \E p \in AdminRequests : UpdateAdminRoleGet(p)
    \/ \E p \in AdminRequests : UpdateAdminRoleCommit(p)
    \/ \E p \in AdminRequests : DeleteAdminGet(p)
    \/ \E p \in AdminRequests : DeleteAdminCount(p)
    \/ \E p \in AdminRequests : DeleteAdminCommit(p)

SpecAdmins == Init /\ [][NextAdmins]_vars

(***************************************************************************)
(* Specification of the ledger anchor over stops and starts of the service *)
(***************************************************************************)
NextRestart ==
    \/ NextShutdown
    \/ Restart

SpecRestart == Init /\ [][NextRestart]_vars

(***************************************************************************)
(* Specification of the ledger anchor where every started thread is        *)
(* scheduled and every call of the ledger returns or raises                *)
(***************************************************************************)
\* the steps of the thread of an entry
ThreadStep(t) ==
    \/ BcAcquire(t)
    \/ BcReadPrev(t)
    \/ NonceAcquire(t)
    \/ GetNextNonce(t)
    \/ BcSendOk(t)
    \/ BcFail(t)

SpecAnchorFair == SpecAnchor /\ \A t \in LogIds : WF_bpc(ThreadStep(t))

(***************************************************************************)
(* Specification of the user table: users register and admins approve,     *)
(* reject, block, unblock and delete them                                  *)
(***************************************************************************)
NextUsers ==
    \/ RegisterUser
    \/ \E u \in UserIds, is_approved \in BOOLEAN : ApproveUser(u, is_approved)
    \/ \E u \in UserIds, hard_delete \in BOOLEAN : DeleteUser(u, hard_delete)
    \/ \E u \in UserIds : BlockUser(u)
    \/ \E u \in UserIds : UnblockUser(u)

SpecUsers == Init /\ [][NextUsers]_vars

(***************************************************************************)
(* Specification of the digest: generate_log_hash on any fields, then      *)
(* verify_log_hash of any fields against the digest                        *)
(***************************************************************************)
\* field values with and without the separator of the digest input
DigestUsers == {"a", "a|b"}
DigestQueries == {"SELECT 1", "c", "b|c"}
DigestStatuses == {"SUCCESS", "FAILED"}

NextDigest ==
    \/ \E u \in DigestUsers, q \in DigestQueries, s \in DigestStatuses, t \in Time :
           GenerateLogHash(u, q, s, t)
    \/ \E u \in DigestUsers, q \in DigestQueries, s \in DigestStatuses, t \in Time :
           VerifyLogHash(u, q, s, t)

SpecDigest == Init /\ [][NextDigest]_vars

(***************************************************************************)
(* Specification of the whole service: a subject logs in and writes, while *)
(* verify, list, a subscriber of /ws/stream, the listener and the ledger   *)
(* threads run                                                             *)
(***************************************************************************)
NextService ==
    \/ next_token < 1 /\ Login("a")
    \/ \E token \in Tokens, q \in StoreQueries, s \in StoreStatuses :
           /\ next_id < MaxServiceLogs
           /\ PutLogs("w1", token, q, s)
    \/ SaveStep("w1")
    \/ ReturnLog("w1")
    \/ EndRequest("w1")
    \/ \E i \in 1 .. MaxServiceLogs : VerifyLog(Uuid(i))
    \/ GetLogsStart("r1", None, MaxLimit, 0)
    \/ GetLogsFetch("r1")
    \/ GetLogsReturn("r1")
    \/ Connect("c1", "stream", "a")
    \/ SendInitial("c1", MaxLimit)
    \/ ListenerTake
    \/ BroadcastSend
    \/ \E t \in LogIds : BcAcquire(t)
    \/ \E t \in LogIds : BcReadPrev(t)
    \/ \E t \in LogIds : NonceAcquire(t)
    \/ \E t \in LogIds : GetNextNonce(t)
    \/ \E t \in LogIds : BcSendOk(t)
    \/ \E t \in LogIds : BcFail(t)

SpecService == Init /\ [][NextService]_vars

(***************************************************************************)
(* Properties                                                              *)
(***************************************************************************)
Range(f) == {f[i] : i \in DOMAIN f}

VerifyIds == {Uuid(i) : i \in 1 .. MaxVerifyLogs}

\* the fields of a stored hash that differ from what save stored
Changed(log_id) ==
    IF log_id \in DOMAIN tampered
    THEN {f \in Fields : DictGet(logs[log_id], f) # tampered[log_id][f]}
    ELSE {}

\* C1: verify on a stored entry right after its append returned gives
\* valid = true, for every payload and outcome text the write accepts, the
\* empty text included.
C1_VerifyAfterAppend ==
    [][\A id \in VerifyIds :
          (VerifyLog(id) /\ Acknowledged(id) /\ id \notin DOMAIN tampered)
          => (vresp'.status = 200 /\ vresp'.verification.valid)]_vars

Retrievable(log_id) == HasData(log_id) /\ ~ from_dict_raises(logs[log_id])

\* C3: every id in a subject index or in the global index has its entry
\* retrievable by get(id), stored entries are never removed or altered, and
\* an entry is published only after its data is stored and its id has been
\* inserted into both indexes.
C3_IndexedIsStored ==
    /\ [](/\ \A k \in ListKeys : \A i \in 1 .. Len(lists[k]) : Retrievable(lists[k][i])
          /\ \A i \in 1 .. Len(published) :
                 /\ HasData(published[i].id)
                 /\ logs[published[i].id] = published[i])
    /\ [][/\ \A id \in DOMAIN logs : id \in DOMAIN logs' /\ logs'[id] = logs[id]
          /\ \A w \in Writers :
                 (wpc'[w] # wpc[w] /\ published' # published)
                 => /\ {"hset", "lpush_user", "lpush_all"} \subseteq Range(wdone[w])
                    /\ HasData(wentry[w].id)]_vars

\* C3 witness: an entry has been published while another append is between
\* its store-by-id and its publish
C3_Witness ==
    \E w1 \in Writers, w2 \in Writers :
        /\ w1 # w2
        /\ wpc[w1] = 5
        /\ wpc[w2] \in 2 .. 4
        /\ Len(lists[AllKey]) >= 2
        /\ Len(published) >= 1

\* C4 as claimed: at every moment each index holds at most N ids.
C4_NeverMoreThanBound ==
    \A k \in ListKeys : Len(lists[k]) <= RetentionBound

\* C4 amended: an index holds at most N ids whenever nothing was inserted
\* into it since its last trim, and at most N + k ids after k insertions
\* that no trim has followed yet.
C4_BoundAfterTrim ==
    \A k \in ListKeys : Len(lists[k]) <= RetentionBound + untrimmed[k]

\* C4 witness: more than N entries were appended and the global index, just
\* trimmed, holds N ids
C4_Witness ==
    /\ Len(published) > RetentionBound
    /\ untrimmed[AllKey] = 0
    /\ Len(lists[AllKey]) = RetentionBound
    /\ \E w \in Writers : wpc[w] = Saved

\* C5: a write that answers 200 has completed every store command of save
\* (store-by-id, both insertions, publish, both trims) and its entry is
\* stored and published; a write with a failed store command answers 500.
C5_SuccessMeansStored ==
    \A w \in Writers :
        wpc[w] = Responding
        => IF wresp[w].status = 200
           THEN /\ wdone[w] = SaveSteps
                /\ HasData(wentry[w].id)
                /\ logs[wentry[w].id] = wresp[w].body
                /\ wresp[w].body \in Range(published)
           ELSE wresp[w].status = 500 /\ wdone[w] # SaveSteps

\* C5 witness: a write answers 200 in a behaviour in which another write
\* was failed by the store
C5_Witness ==
    \E w \in Writers :
        /\ wpc[w] = Responding
        /\ wresp[w].status = 200
        /\ store_failed

\* C6: list(subject_filter = S) returns only entries of subject S, and the
\* index of S holds only ids of entries of S.
C6_OnlySubject ==
    /\ \A u \in Users : \A i \in 1 .. Len(lists[UserKey(u)]) :
           HasData(lists[UserKey(u)][i]) => logs[lists[UserKey(u)][i]]["user_id"] = u
    /\ \A r \in Readers :
           (rpc[r] = "fetch" /\ rargs[r].user_id \in Users)
           => \A i \in 1 .. Len(rlogs[r]) : rlogs[r][i].user_id = rargs[r].user_id

\* C6 witness: list for subject "a" returns an entry while the store also
\* holds an entry of another subject
C6_Witness ==
    \E r \in Readers :
        /\ Returning(r)
        /\ rargs[r].user_id = "a"
        /\ Len(rlogs[r]) >= 1
        /\ \E id \in DOMAIN logs : logs[id]["user_id"] = "b"

\* the ids at the 0-based positions offset .. offset+limit-1 of a list
Page(list, limit, offset) ==
    [j \in 1 .. Max(0, Min(limit, Len(list) - offset)) |-> list[offset + j]]

\* C7: for limit >= 0 and offset >= 0, list reads the ids at positions
\* offset .. offset+limit-1 of the index, so at most limit of them, and
\* none when offset is at or past the end.
C7_PageOfIndex ==
    [][\A r \in Readers :
          (rpc[r] = "idle" /\ rpc'[r] = "fetch")
          => rids'[r] = Page(ListAt(ListKey(rargs'[r].user_id)),
                             rargs'[r].limit, rargs'[r].offset)]_vars

\* the per-subject map holds the websocket under the subject
InUserMap(c, user_id) ==
    user_id \in DOMAIN user_connections /\ InList(user_connections[user_id], c)

\* C8: a connection subscribed with filter S is never sent a live push of
\* an entry whose subject_id differs from S.
C8_PushMatchesFilter ==
    \A c \in Conns :
        Truthy(cuser[c])
        => \A i \in 1 .. Len(received[c]) :
               received[c][i].type = "push"
               => received[c][i].log.user_id = cuser[c]

\* C9: a connection subscribed with filter S is in the per-subject map
\* under S exactly when it is in the all-connections list.
C9_IndexesAgree ==
    \A c \in Conns :
        Truthy(cuser[c])
        => (InUserMap(c, cuser[c]) <=> InList(active_connections, c))

\* C10: once a subscriber has disconnected and its handler has finished,
\* the connection is in neither the all-connections list nor the
\* per-subject map, on /ws/logs and on /ws/stream.
C10_RemovedWhenHandlerEnds ==
    \A c \in Conns :
        (cpc[c] = "done" /\ ~ alive[c])
        => /\ ~ InList(active_connections, c)
           /\ \A u \in DOMAIN user_connections : ~ InList(user_connections[u], c)


\* the messages of a snapshot: what the handlers send before streaming
SnapshotTypes == {"logs_response", "initial_logs"}

\* C12: the first message a subscriber with subject filter S receives is a
\* snapshot holding only entries of subject S; no live push reaches it
\* before that snapshot, whatever writes and broadcasts run meanwhile.
C12_SnapshotFirst ==
    \A c \in Conns :
        (Truthy(cuser[c]) /\ received[c] # << >>)
        => LET m == received[c][1]
           IN  /\ m.type \in SnapshotTypes
               /\ \A i \in 1 .. Len(m.logs) : m.logs[i].user_id = cuser[c]


\* the live pushes a client has received, in the order received
Pushes(c) ==
    LET ps == SelectSeq(received[c], LAMBDA m : m.type = "push")
    IN  [i \in 1 .. Len(ps) |-> ps[i].log]

\* the connections of broadcast's copy whose send_text has been run
Served == {lcopy[i] : i \in 1 .. Len(lcopy) - Len(lqueue)}

\* send_text to the connection raised during the running broadcast
SendFailed(c) == c \in Served /\ lmsg \notin Range(Pushes(c))

\* C11: when the send of a broadcast message to one connection fails, the
\* other registered connections still get that message: every connection of
\* the broadcast whose client is there has the message once its turn has
\* passed; and the listener keeps running, so every message published is in
\* the end taken and broadcast to the end.
C11_FailureIsIsolated ==
    /\ [](\A c \in Served : alive[c] => lmsg \in Range(Pushes(c)))
    /\ \A k \in 1 .. MaxFanoutLogs :
           (Len(published) >= k) ~> (lpos > k \/ (lpos = k /\ lqueue = << >>))

\* a broadcast is over in which a send failed before another connection was
\* served, after an earlier message: the listener went on after a failure
C11_Witness ==
    /\ lpos = 2
    /\ lqueue = << >>
    /\ \E i, j \in 1 .. Len(lcopy) :
           /\ i < j
           /\ SendFailed(lcopy[i])
           /\ alive[lcopy[j]]
           /\ lmsg \in Range(Pushes(lcopy[j]))

\* the entry's subject passes the filter of the connection
Matches(c, log) == ~ Truthy(cuser[c]) \/ log.user_id = cuser[c]

\* the k-th message of log_updates has been published after manager.connect
\* registered the connection, and passes its filter
PublishedSince(c, k) ==
    IF cpc[c] # "new" /\ k > subscribed_at[c] /\ k <= Len(published)
    THEN Matches(c, published[k])
    ELSE FALSE

\* the k-th message of log_updates has been pushed to the connection
Pushed(c, k) ==
    IF k <= Len(published) THEN published[k] \in Range(Pushes(c)) ELSE FALSE

PushedUpTo(c) == IF InList(lqueue, c) THEN lpos - 1 ELSE lpos

\* a subscriber without filter that is registered and still there
Following(c) == cpc[c] # "new" /\ alive[c] /\ ~ Truthy(cuser[c])

\* C14 as claimed: the live pushes of a subscriber without filter are
\* exactly the entries published while it is registered, once each, in
\* publish order.
C14_ExactlyPublishedWhileRegistered ==
    \A c \in Conns :
        Following(c)
        => Pushes(c) = SubSeq(published, subscribed_at[c] + 1, PushedUpTo(c))

\* C14, amended: the live pushes of a subscriber without filter that stays
\* connected are a run of consecutive published entries, once each, in
\* publish order, which leaves out no entry published while it is
\* registered; the run can begin with entries published before the
\* subscriber registered that the listener had not broadcast by then.
C14_ConsecutiveInPublishOrder ==
    \A c \in Conns :
        Following(c)
        => \E first \in 1 .. subscribed_at[c] + 1 :
               Pushes(c) = SubSeq(published, first, PushedUpTo(c))

\* the scenario: the subscriber registered first gets the entries of a, b, a
C14_Witness ==
    /\ Following("c1")
    /\ subscribed_at["c1"] = 0
    /\ Len(Pushes("c1")) = 3
    /\ Pushes("c1")[1].user_id = "a"
    /\ Pushes("c1")[2].user_id = "b"
    /\ Pushes("c1")[3].user_id = "a"


\* store_log_hash returned a transaction hash / returned None
Succeeded(t) == bpc[t] = "done" /\ bresult[t] = "tx"
Failed(t) == bpc[t] = "done" /\ bresult[t] = None

\* C15: no two calls of get_next_nonce return the same value and every
\* nonce returned is greater than those returned before, whatever the
\* ledger's transaction count says (transactions sent and not yet counted
\* included).
C15_NoncesIncrease ==
    \A i, j \in 1 .. Len(allocs) :
        i < j => allocs[i].nonce < allocs[j].nonce

\* C16: the nonce given to a submission that then failed is not given to
\* any later submission.
C16_FailedNonceNotReused ==
    \A i, j \in 1 .. Len(allocs) :
        (i < j /\ Failed(allocs[i].thread)) => allocs[j].nonce # allocs[i].nonce

\* the digest of the last submission before the j-th that succeeded, or
\* the initial value
LastAnchoredBefore(j) ==
    LET oks == {i \in 1 .. j - 1 : Succeeded(anchors[i])}
    IN  IF oks = {} THEN ZeroHash
        ELSE Digest(anchors[CHOOSE i \in oks : \A k \in oks : k <= i])

\* C17: a submission carries as prev the digest of the last submission
\* before it that succeeded (the initial value when there is none): after
\* submit(A), submit(B) carries digest_A only if A succeeded, and after a
\* failed A what was anchored before A, not digest_A.
C17_PrevIsLastSuccess ==
    \A j \in 1 .. Len(anchors) : bprev[anchors[j]] = LastAnchoredBefore(j)

\* A succeeded, B failed, and C carries the digest of A
C17_Witness ==
    /\ Len(anchors) = 3
    /\ Succeeded(anchors[1])
    /\ Failed(anchors[2])
    /\ bprev[anchors[3]] = Digest(anchors[1])

\* the values _last_hash starts with: not read yet, or what the contract
\* says
InitialHashes == {None, ZeroHash}

C19_NoSharedPrev ==
    \A t, u \in LogIds :
        (t # u /\ Succeeded(t) /\ Succeeded(u)) => bprev[t] # bprev[u]

\* two submissions succeeded, the thread of the later entry first
C19_Witness ==
    /\ Len(anchors) >= 2
    /\ anchors[1] = Uuid(2)
    /\ anchors[2] = Uuid(1)
    /\ Succeeded(Uuid(1))
    /\ Succeeded(Uuid(2))

\* a step of a ledger thread or of the ledger
AnchorStep ==
    \/ \E t \in LogIds : BcAcquire(t) \/ BcReadPrev(t) \/ GetNextNonce(t)
    \/ \E t \in LogIds : BcSendOk(t) \/ BcFail(t)
    \/ LedgerMine

\* C20: the response of a write and what the store holds do not depend on
\* the submission of the entry: the write is answered 200 with the stored
\* entry whether the submission has succeeded, failed or not returned, and
\* no step of a submission touches the store or the request.
C20_WriteIgnoresLedger ==
    /\ [](\A w \in Writers :
              wpc[w] = Responding
              => /\ wresp[w].status = 200
                 /\ wresp[w].body = to_dict(wentry[w])
                 /\ logs[wentry[w].id] = wresp[w].body)
    /\ [][AnchorStep => UNCHANGED <<storeVars, writerVars>>]_vars

\* a write is being answered 200 while the submission of its entry has
\* failed and the submission of an earlier entry has not returned
C20_Witness ==
    \E w \in Writers :
        /\ wpc[w] = Responding
        /\ wresp[w].status = 200
        /\ \/ Failed(wentry[w].id)
           \/ \E t \in LogIds : bpc[t] = "send" /\ bpc[wentry[w].id] = "new"


\* the attempts of the thread of an entry: the times it read prev_hash
Attempts(t) == {j \in 1 .. Len(anchors) : anchors[j] = t}

\* C21: a write that succeeded has started one thread for the digest of
\* its entry, a thread makes at most one attempt, and the digest of a
\* submission that failed is not taken by the ledger afterwards: nothing
\* tries again.
C21_OneAttemptNoRetry ==
    /\ \A w \in Writers :
           (wpc[w] = Responding /\ wresp[w].status = 200)
           => Cardinality({p \in bc_started : p[1] = wentry[w].id}) = 1
    /\ \A t \in LogIds : Cardinality(Attempts(t)) <= 1
    /\ \A t \in LogIds : Failed(t) => Digest(t) \notin acked

\* the first submission failed, a later one succeeded, the threads of all
\* the entries are through
C21_Witness ==
    /\ Len(anchors) = MaxAnchorLogs
    /\ Failed(anchors[1])
    /\ Succeeded(anchors[2])
    /\ \A j \in 1 .. Len(anchors) : bpc[anchors[j]] = "done"

\* C23: verify on an entry whose stored fields were altered answers with a
\* result that has valid = false and an error reason; it never fails with
\* an exception.
C23_AlteredIsReportedInvalid ==
    [][\A id \in VerifyIds :
          (VerifyLog(id) /\ id \in DOMAIN tampered /\ Changed(id) # {})
          => /\ vresp'.status = 200
             /\ ~ vresp'.verification.valid
             /\ vresp'.verification.error # None]_vars

\* C24: in every verify result the verification token is there only when
\* valid is true, and error is null exactly when valid is true.
C24_TokenOnlyWhenValid ==
    vresp.status = 200
    => /\ (vresp.verification.verification_token # None => vresp.verification.valid)
       /\ (vresp.verification.error = None <=> vresp.verification.valid)

\* a verify of an edited entry gave a result without token and with an error
C24_Witness ==
    /\ vresp.status = 200
    /\ vresp.log_id \in DOMAIN tampered
    /\ ~ vresp.verification.valid
    /\ vresp.verification.verification_token = None
    /\ vresp.verification.error # None

\* C28: a client of /ws/stream gets real-time updates only, it is never
\* sent a snapshot of the entries there are.
C28_StreamHasNoSnapshot ==
    \A c \in Conns :
        cendpoint[c] = "stream"
        => \A i \in 1 .. Len(received[c]) : received[c][i].type \notin SnapshotTypes

\* datetime of the entry stored under an id
CreatedAt(log_id) == FromIsoFormat(logs[log_id]["timestamp"])

\* C30: the index of a subject holds its entries in non-increasing
\* created_at order, newest first, however concurrent writers of the
\* subject interleave.
C30_NewestFirstByCreatedAt ==
    \A u \in Users :
        LET ids == lists[UserKey(u)]
        IN  \A i, j \in 1 .. Len(ids) :
                (i < j /\ HasData(ids[i]) /\ HasData(ids[j]))
                => CreatedAt(ids[i]) >= CreatedAt(ids[j])

\* C22: once a submission has allocated its nonce it runs until the ledger
\* call completes or fails; a shutdown does not abort it and the nonce lock
\* is released only after it.  So when the service has exited, no submission
\* is left between its nonce and the end of the ledger call.
C22_ShutdownWaitsForSubmissions ==
    exited => \A t \in LogIds : bpc[t] # "send"

\* the token was returned by create_session and its expiry time has passed
Expired(token) == token \in DOMAIN issued /\ now >= issued[token].expires_at
\* create_session never returned the token
NeverIssued(token) == token \notin DOMAIN issued

\* C25: an expired token and a token that was never issued are
\* indistinguishable to the caller: verify_token returns the same result
\* for both, and the authenticated write answers both with the same
\* response and does the same to the service.
C25_ExpiredLikeNeverIssued ==
    /\ [](\A e, u \in Tokens :
             Expired(e) /\ NeverIssued(u) =>
                 /\ verify_token(e) = verify_token(u)
                 /\ get_current_user(e) = get_current_user(u))
    /\ [][\A e, u \in Tokens, q \in StoreQueries, s \in StoreStatuses :
              Expired(e) /\ NeverIssued(u) =>
                  (PutLogs("w1", e, q, s) <=> PutLogs("w1", u, q, s))]_vars
C25_Witness ==
    /\ \E e \in Tokens : Expired(e)
    /\ wresp["w1"] = Unauthorized

\* C26: verify_token(token) returns subject s only if create_session(s)
\* returned the token and its expiry time has not passed; at or after
\* expires_at, and for a token never issued, it returns None.
C26_ResolveOnlyIssuedUnexpired ==
    \A token \in Tokens :
        /\ verify_token(token) # None =>
               /\ token \in DOMAIN issued
               /\ verify_token(token) = issued[token].user_id
               /\ now < issued[token].expires_at
        /\ Expired(token) \/ NeverIssued(token) => verify_token(token) = None
C26_Witness ==
    /\ \E token \in Tokens : verify_token(token) # None
    /\ \E token \in Tokens : Expired(token)

\* the token was valid when the entry was created, and bound to its subject
WrittenWith(fields, token) ==
    /\ token \in DOMAIN issued
    /\ issued[token].user_id = fields["user_id"]
    /\ issued[token].created_at <= FromIsoFormat(fields["timestamp"])
    /\ FromIsoFormat(fields["timestamp"]) < issued[token].expires_at

\* C27: every entry in the log store was written by a request bearing a
\* session token valid at write time, and its user_id is the subject bound
\* to that token; a write request with an unknown or expired token stores
\* nothing, publishes nothing and starts no ledger thread.
C27_WritesNeedValidToken ==
    /\ [](\A id \in DOMAIN logs : \E token \in Tokens : WrittenWith(logs[id], token))
    /\ [][\A token \in Tokens, q \in StoreQueries, s \in StoreStatuses :
              PutLogs("w1", token, q, s) =>
                  IF Expired(token) \/ NeverIssued(token)
                  THEN /\ wresp'["w1"].status = 401
                       /\ UNCHANGED <<storeVars, bc_started, next_id, wentry>>
                  ELSE /\ wentry'["w1"].user_id = issued[token].user_id
                       /\ WrittenWith(to_dict(wentry'["w1"]), token)]_vars
C27_Witness ==
    /\ \E id \in DOMAIN logs : logs[id]["user_id"] = "b"
    /\ \E token \in Tokens : Expired(token)
    /\ wresp["w1"].status = 401

\* C29: whatever requests on the admin table run, and however they
\* interleave, at least one active admin with role super_admin exists.
C29_ActiveSuperAdminExists ==
    \E a \in DOMAIN admins : admins[a].role = "super_admin" /\ admins[a].is_active

\* no request is inside save
Quiescent == \A w \in Writers : wpc[w] \notin 1 .. Len(SaveSteps)

\* the n last elements of a sequence, the last one first
Newest(seq, n) == [i \in 1 .. Min(n, Len(seq)) |-> seq[Len(seq) - i + 1]]

\* C31: after k appends for a subject, none of them cut short by a store
\* failure, and with no append in progress, the index of the subject holds
\* exactly the min(k, N) ids inserted last, newest first, so for k > N the
\* oldest k - N ids are not in it; the same holds for the global index.
C31_IndexHoldsNewest ==
    (Quiescent /\ ~ store_failed)
    => \A k \in ListKeys : lists[k] = Newest(pushed[k], RetentionBound)
C31_Witness ==
    /\ Quiescent
    /\ ~ store_failed
    /\ Len(pushed[UserKey("a")]) > RetentionBound
    /\ Len(lists[UserKey("a")]) = RetentionBound
    /\ pushed[UserKey("a")][1] \notin Range(lists[UserKey("a")])

\* C35: when a store command of save fails, at whichever step, the store
\* is left as it was before the write: the entry of the write answered 500
\* is not stored under its id, is in no index and has not been published.
C35_FailedAppendLeavesNothing ==
    \A w \in Writers :
        (wpc[w] = Responding /\ wresp[w].status = 500)
        => /\ ~ HasData(wentry[w].id)
           /\ \A k \in ListKeys : wentry[w].id \notin Range(lists[k])
           /\ \A i \in 1 .. Len(published) : published[i].id # wentry[w].id

\* where an element is in a sequence that holds it
Pos(seq, x) == CHOOSE i \in 1 .. Len(seq) : seq[i] = x

\* C36: digests are submitted to the ledger in the order in which their
\* entries were inserted into the global index, however the writes and the
\* submissions interleave.
C36_AnchoredInAppendOrder ==
    \A i, j \in 1 .. Len(anchors) :
        i < j => Pos(pushed[AllKey], anchors[i]) < Pos(pushed[AllKey], anchors[j])

\* C37: with no append in progress, the entries of a subject that are in
\* the index of the subject and in the global index are in the same
\* relative order in both, however concurrent appends interleaved.
C37_SameRelativeOrder ==
    Quiescent
    => \A u \in Users :
           LET ids == lists[UserKey(u)]
               all == lists[AllKey]
           IN  \A i, j \in 1 .. Len(ids) :
                   (i < j /\ ids[i] \in Range(all) /\ ids[j] \in Range(all))
                   => Pos(all, ids[i]) < Pos(all, ids[j])

\* C39: concurrent submissions never deadlock: _nonce_lock is only taken by
\* the thread that holds _last_hash_lock, a thread that has left
\* store_log_hash, with a transaction hash or with None, holds neither
\* lock, and every thread that was started leaves store_log_hash.
C39_NoDeadlock ==
    /\ [](nonce_lock # None => last_hash_lock = nonce_lock)
    /\ [](\A t \in LogIds :
             bpc[t] \in {"new", "done"} => last_hash_lock # t /\ nonce_lock # t)
    /\ \A t \in LogIds : Acknowledged(t) ~> bpc[t] = "done"
C39_Witness ==
    /\ \E t, u \in LogIds :
           /\ bpc[t] = "done" /\ bresult[t] = "tx"
           /\ bpc[u] = "done" /\ bresult[u] = None
    /\ \E t \in LogIds : nonce_lock = t /\ last_hash_lock = t

\* C32: when _last_hash is first set in a process, it is set to the digest
\* of the last log the ledger holds, and to the genesis value "0x0" only if
\* the ledger holds none; also when the read of the ledger fails.
C32_FirstPrevIsLedgerTail ==
    [][(last_hash = None /\ last_hash' # None)
       => last_hash' = IF Len(chain) = 0 THEN ZeroHash
                       ELSE chain[Len(chain)].logHash]_vars

\* C34: in every state of a user row under approve, block, unblock and
\* delete, is_blocked = true implies is_approved = false and
\* is_active = false.
C34_BlockedIsNeitherApprovedNorActive ==
    \A u \in DOMAIN users :
        users[u].is_blocked => ~ users[u].is_approved /\ ~ users[u].is_active

\* the four digested fields of a call
FieldTuple(h) == <<h.user_id, h.query, h.status, h.timestamp>>

\* C38: two entries that differ in at least one of user_id, query, status,
\* timestamp never have the same digest input, whatever the field values
\* are, the separator '|' included; so fields that differ from the
\* digested ones, in one field or in several, never verify as valid.
C38_DigestInputIsInjective ==
    (hentry # NoFields /\ hcheck # NoFields /\ FieldTuple(hentry) # FieldTuple(hcheck))
    => /\ hentry.log_data # hcheck.log_data
       /\ ~ hcheck.valid

\* C33: once an entry is stored under its id, no step of the service (login,
\* write, verify, list, subscribe, broadcast, ledger submission) changes any
\* of its stored fields or removes it; a later write only adds a new id.
C33_StoredEntriesNeverChange ==
    [][\A id \in DOMAIN logs : id \in DOMAIN logs' /\ logs'[id] = logs[id]]_vars
C33_Witness ==
    /\ HasData(Uuid(1))
    /\ HasData(Uuid(2))
    /\ DOMAIN issued # {}
    /\ vresp = [status |-> 200, log_id |-> Uuid(1),
                verification |-> verify_log_integrity(logs[Uuid(1)])]
    /\ rlogs["r1"] # << >>
    /\ \E i \in 1 .. Len(received["c1"]) : received["c1"][i].type = "push"
    /\ bpc[Uuid(1)] = "done"
    /\ bresult[Uuid(1)] = "tx"
    /\ bpc[Uuid(2)] = "done"
    /\ bresult[Uuid(2)] = None

====
